---- MODULE Spec2Model ----
(***************************************************************************)
(* Virtual desktops extension: the desktop-switching state machine         *)
(* (VirtualDesktopManager), the sequential task queue (WakeupQueue) and    *)
(* the fan-in barrier (BarrierClosure).                                    *)
(***************************************************************************)
EXTENDS Integers, Sequences, FiniteSets, TLC

(***************************************************************************)
(* Bounds of the model.                                                    *)
(***************************************************************************)
\* Largest stored currentDesktop_ the function specification enumerates.
MaxCurrent == 10
\* Requests range from -MaxBelow up to MaxCurrent + 2.
MaxBelow == 4
\* Remembered windows of the function specification sit on 0..MaxWinDesktop.
MaxWinDesktop == 3
\* Window identifiers of the state machine are 1..MaxWindows.
MaxWindows == 2
\* Remembered windows of the forgetWindow specification are 1..MaxForgetWindows.
MaxForgetWindows == 3
\* The desktop count is set to values in 1..MaxSetting.
MaxSetting == 3
\* Closures added to the WakeupQueue.
MaxTasks == 5
\* Closures obtained from one BarrierClosure.
MaxSignals == 4
\* The window manager shifts a window by 0..MaxShift pixels (or by the tolerance).
MaxShift == 2
\* Requested left and top coordinates are 0..MaxCoordinate.
MaxCoordinate == 1
\* Requested widths and heights are the tolerance plus 1..MaxSize.
MaxSize == 2

(***************************************************************************)
(* Program constants.                                                      *)
(***************************************************************************)
MINIMIZED_STATE_ == "minimized"
DISALLOW_EMPTY_DESKTOPS == TRUE
\* settings.getDesktops(): clampDefault_(localStorage['desktops'], 1, 10, 4)
MinDesktops == 1
MaxDesktops == 10
DefaultDesktops == 4
WINDOW_MANAGER_ATTEMPTS == 5
WINDOW_MANAGER_TOLERANCE == 64

VARIABLES
  desktopsSetting,   \* localStorage['desktops']: <<>> or <<integer>>
  currentDesktop_,   \* VirtualDesktopManager.currentDesktop_
  windowStates_,     \* VirtualDesktopManager.windowStates_: id -> [desktop, state]
  reqDesktop,        \* argument of the last numberToDesktopId_ call
  disallowEmpty,     \* argument of the last numberToDesktopId_ call
  ret,               \* its return value
  called,            \* whether numberToDesktopId_ has been applied
  windows,           \* the live windows of the window facility: id -> [state]
  stored,            \* localStorage: currentDesktop and windowStates as saved
  iconDesktop,       \* last argument of the onChange_ notification
  pc,                \* position of the running operation
  op,                \* the running operation and its arguments
  snapshot,          \* the windows list handed to the getAll callback
  prevDesktop,       \* prevDesktop of the last getAll callback
  nAtSwitch,         \* n (settings.getDesktops()) of the last getAll callback
  allStatesRestored, \* barrier of the state/focus updates
  done,              \* barrier of the position/size updates
  pending,           \* updates issued to the window facility, not yet acknowledged
  nUpdates,          \* windowProvider_.update calls made by the operation
  nCallbacks,        \* times the operation's callback has been called
  lastFocusedWindow, \* the window the running operation's updates gave focus last
  seenByOnChange,    \* localStorage as onChange_ found it in the running operation
  gotLastFocused,    \* the window getLastFocused gave the running forgetWindow
  queue_,            \* WakeupQueue.queue_: the closures, the running one first
  taskLog,           \* what was passed to add(), in the order of the calls
  started,           \* the closures called by the queue, in the order of the calls
  signalled,         \* the closures that have called their finished argument
  barrier,           \* a BarrierClosure
  obtained,          \* number of closures obtained from its get()
  fired,             \* the closures obtained from get() that have been called
  drained,           \* the last of them was called before finalize()
  updateInfo,        \* WindowProvider.update: the changes requested
  createInfo,        \* WindowProvider.create: the createInfo argument
  win,               \* the window as the window manager has it, << >> if none
  wmPending,         \* updates chrome has handed to the window manager
  decoration,        \* how far the window manager shifts a window it places
  wpPc,              \* position of the running update() or create()
  attempt,           \* checkWindowUpdated_: i
  fixes,             \* checkWindowUpdated_: the last result of fixUpdateInfo
  wpLog              \* what the call has done so far

fnVars == <<reqDesktop, disallowEmpty, ret, called>>
\* What the specifications that follow focus and the notification record about
\* the running operation; the others leave it as it is.
followedVars == <<lastFocusedWindow, seenByOnChange, gotLastFocused>>
vdmVars == <<windows, stored, iconDesktop, pc, op, snapshot, prevDesktop, nAtSwitch,
             allStatesRestored, done, pending, nUpdates, nCallbacks, followedVars>>
queueVars == <<queue_, taskLog, started, signalled>>
barrierVars == <<barrier, obtained, fired, drained>>
providerVars == <<updateInfo, createInfo, win, wmPending, decoration, wpPc, attempt,
                  fixes, wpLog>>
vars == <<desktopsSetting, currentDesktop_, windowStates_, fnVars, vdmVars, queueVars,
          barrierVars, providerVars>>

(***************************************************************************)
(* JavaScript arithmetic.                                                  *)
(***************************************************************************)
\* a % n of JavaScript: the remainder takes the sign of the dividend.
JsMod(a, n) == IF a >= 0 THEN a % n ELSE 0 - ((0 - a) % n)

\* Math.round(num / den) for den > 0: halves round towards +infinity.
MathRound(num, den) == (2 * num + den) \div (2 * den)

Min(a, b) == IF a < b THEN a ELSE b
Max(a, b) == IF a > b THEN a ELSE b

(***************************************************************************)
(* settings                                                                *)
(***************************************************************************)
\* A stored value is <<>> (absent, parseInt gives NaN) or <<i>> (the integer i).
clampDefault_(value, min, max, def) ==
  IF value = <<>> THEN def ELSE Min(Max(value[1], min), max)

getDesktops == clampDefault_(desktopsSetting, MinDesktops, MaxDesktops, DefaultDesktops)

(***************************************************************************)
(* VirtualDesktopManager.numberToDesktopId_                                *)
(***************************************************************************)
\* clampedCurrentDesktop
ClampedCurrentDesktop(cur, n) == IF cur > n - 1 THEN n - 1 ELSE cur

\* Variants of ShrinkRemap with one branch changed.
ShrinkRemap_NoShift(req, cur, n) ==
  IF cur > n - 1
    THEN IF req > n - 1 THEN n - 1 ELSE req
    ELSE req

ShrinkRemap_NoCollapse(req, cur, n) ==
  IF cur > n - 1
    THEN IF req > cur THEN req - (cur - (n - 1)) ELSE req
    ELSE req

ShrinkRemap_ShiftOffByOne(req, cur, n) ==
  IF cur > n - 1
    THEN IF req > cur THEN req - (cur - n)
         ELSE IF req > n - 1 THEN n - 1
         ELSE req
    ELSE req

\* Variant of ShrinkRemap that shifts every request when the count has shrunk.
ShrinkRemap_ShiftsAll(req, cur, n) ==
  IF cur > n - 1 THEN req - (cur - (n - 1)) ELSE req

\* The adjustment of reqDesktop made when currentDesktop_ had to be clamped.
ShrinkRemap(req, cur, n) ==
  IF cur > n - 1
    THEN IF req > cur THEN req - (cur - (n - 1))
         ELSE IF req > n - 1 THEN n - 1
         ELSE req
    ELSE req

\* Variant of WrapDesktop with a single modulo.
WrapDesktop_SingleModulo(req, n) == JsMod(req + n, n)

\* reqDesktop = ((reqDesktop + n) % n + n) % n
WrapDesktop(req, n) == JsMod(JsMod(req + n, n) + n, n)

\* nWindowsOnDesktop[d] > 0, counted over the non-minimized remembered windows.
nWindowsOnDesktop(ws, d) ==
  Cardinality({w \in DOMAIN ws :
                 ws[w].state # MINIMIZED_STATE_ /\ ws[w].desktop = d})

\* Variant of Direction that always adjusts backwards.
Direction_AlwaysBackward(req, clamped, n) == 0 - 1

\* Variant of Direction that adjusts forwards when the request is the
\* current desktop.
Direction_ZeroForward(req, clamped, n) ==
  LET raw == req - clamped
      direction == raw - n * MathRound(raw, n)
  IN  IF direction < 0 THEN 0 - 1 ELSE 1

\* Variant of Direction that adjusts forwards when the request is exactly half
\* the count away from the current desktop.
Direction_HalfForward(req, clamped, n) ==
  LET raw == req - clamped
      direction == raw - n * MathRound(raw, n)
  IN  IF direction <= 0 /\ 2 * direction # 0 - n THEN 0 - 1 ELSE 1

\* Sign of the adjustment: -1 or +1.
Direction(req, clamped, n) ==
  LET raw == req - clamped
      direction == raw - n * MathRound(raw, n)
  IN  IF direction <= 0 THEN 0 - 1 ELSE 1

\* The while loop that refuses empty desktops.
RECURSIVE SkipEmpty(_, _, _, _, _)
SkipEmpty(req, direction, clamped, ws, n) ==
  IF nWindowsOnDesktop(ws, req) > 0
    THEN req
    ELSE LET next == JsMod(req + direction + n, n)
         IN  IF next = clamped THEN next
             ELSE SkipEmpty(next, direction, clamped, ws, n)

numberToDesktopId_(req, disallow, cur, ws, n) ==
  LET clamped == ClampedCurrentDesktop(cur, n)
      wrapped == WrapDesktop(ShrinkRemap(req, cur, n), n)
  IN  IF disallow
        THEN SkipEmpty(wrapped, Direction(wrapped, clamped, n), clamped, ws, n)
        ELSE wrapped

(***************************************************************************)
(* WakeupQueue. A queue is [queue, started, signalled]: queue_, the log of *)
(* the closures it has called and the set of closures that have called     *)
(* their finished argument. A closure is [id, sync]: a sync closure calls  *)
(* finished before it returns, another one calls it later.                 *)
(***************************************************************************)
RECURSIVE wakeupFirst_(_)
RECURSIVE wakeupNext_(_)

\* wakeupFirst_: calls queue_[0], which may call wakeupNext_ at once.
wakeupFirst_(q) ==
  IF Len(q.queue) > 0
    THEN LET t == Head(q.queue)
             run == [q EXCEPT !.started = Append(@, t.id)]
         IN  IF t.sync
               THEN wakeupNext_([run EXCEPT !.signalled = @ \cup {t.id}])
               ELSE run
    ELSE q

\* wakeupNext_, the finished argument of every closure.
wakeupNext_(q) == wakeupFirst_([q EXCEPT !.queue = Tail(@)])

\* Variant of add that wakes the first closure on every call.
add_AlwaysWakes(q, t) == wakeupFirst_([q EXCEPT !.queue = Append(@, t)])

\* Variant of add that only appends.
add_NeverWakes(q, t) == [q EXCEPT !.queue = Append(@, t)]

\* Variant of add that calls the closure it is given at once, whatever the
\* queue holds.
add_WakesNewest(q, t) ==
  [q EXCEPT !.queue = Append(@, t), !.started = Append(@, t.id)]

\* Variant of add that drops the closure when another one is running.
add_DropsWhenBusy(q, t) ==
  IF Len(q.queue) = 0 THEN wakeupFirst_([q EXCEPT !.queue = Append(@, t)]) ELSE q

\* add(func)
add(q, t) ==
  LET pushed == [q EXCEPT !.queue = Append(@, t)]
  IN  IF Len(pushed.queue) = 1 THEN wakeupFirst_(pushed) ELSE pushed

\* Variant of isIdle that does not count the closure that is running.
isIdle_IgnoresRunning(q) == Len(q.queue) <= 1

\* isIdle()
isIdle(q) == Len(q.queue) = 0

\* A new WakeupQueue.
QueueIdle ==
  /\ queue_ = << >>
  /\ taskLog = << >>
  /\ started = << >>
  /\ signalled = {}

(***************************************************************************)
(* BarrierClosure: get(), the closures it returns, finalize(), then().     *)
(* A barrier is [count, finalized, then, fired]: the closures not yet      *)
(* called, whether finalize() and then() have been called, and how often   *)
(* the continuation has run.                                               *)
(***************************************************************************)
NewBarrier == [count |-> 0, finalized |-> FALSE, then |-> FALSE, fired |-> 0]

\* Variant of BarrierCheck that does not wait for finalize().
BarrierCheck_IgnoresFinalize(b) ==
  IF b.count = 0 /\ b.then
    THEN [b EXCEPT !.fired = @ + 1]
    ELSE b

\* Variant of BarrierCheck that does not wait for the closures to be called.
BarrierCheck_IgnoresCount(b) ==
  IF b.finalized /\ b.then /\ b.fired = 0
    THEN [b EXCEPT !.fired = @ + 1]
    ELSE b

\* Runs the continuation if nothing is outstanding any more.
BarrierCheck(b) ==
  IF b.count = 0 /\ b.finalized /\ b.then
    THEN [b EXCEPT !.fired = @ + 1]
    ELSE b

BarrierGet(b) == [b EXCEPT !.count = @ + 1]
BarrierSignal(b) == BarrierCheck([b EXCEPT !.count = @ - 1])
\* Variant of finalize() that sets the flag and does not look at the count.
BarrierFinalize_WithoutCheck(b) == [b EXCEPT !.finalized = TRUE]

BarrierFinalize(b) == BarrierCheck([b EXCEPT !.finalized = TRUE])
BarrierThen(b) == BarrierCheck([b EXCEPT !.then = TRUE])

\* A new BarrierClosure.
BarrierIdle ==
  /\ barrier = NewBarrier
  /\ obtained = 0
  /\ fired = {}
  /\ drained = FALSE

RECURSIVE BarrierGetTimes(_, _)
BarrierGetTimes(b, k) == IF k = 0 THEN b ELSE BarrierGetTimes(BarrierGet(b), k - 1)

\* get() k times, each closure being called at once by a window facility that
\* acknowledges inside update().
RECURSIVE BarrierGetSignalTimes(_, _)
BarrierGetSignalTimes(b, k) ==
  IF k = 0 THEN b ELSE BarrierGetSignalTimes(BarrierSignal(BarrierGet(b)), k - 1)

\* The closures obtained in one loop of applyWindowStates_.
BarrierLoop(b, k, sync) ==
  IF sync THEN BarrierGetSignalTimes(b, k) ELSE BarrierGetTimes(b, k)

(***************************************************************************)
(* WindowProvider. Bounds are [left, top, width, height]; in an update     *)
(* request each of them is << >> (not given) or <<v>>.                     *)
(***************************************************************************)
Abs(x) == IF x < 0 THEN 0 - x ELSE x

NoInfo == [left |-> << >>, top |-> << >>, width |-> << >>, height |-> << >>]

\* Variant of fixUpdateInfo that moves the far corner the wrong way.
fixUpdateInfo_AddsOffset(w, info) ==
  LET hasX == info.width # << >> /\ info.left # << >>
      hasY == info.height # << >> /\ info.top # << >>
      dx == (w.left + w.width) - (info.left[1] + info.width[1])
      dy == (w.top + w.height) - (info.top[1] + info.height[1])
  IN  [newUpdateInfo |->
         [NoInfo EXCEPT !.width = IF hasX THEN <<info.width[1] + dx>> ELSE << >>,
                        !.height = IF hasY THEN <<info.height[1] + dy>> ELSE << >>],
       distance |-> (IF hasX THEN Abs(dx) ELSE 0) + (IF hasY THEN Abs(dy) ELSE 0)]

\* fixUpdateInfo(win, updateInfo)
fixUpdateInfo(w, info) ==
  LET hasX == info.width # << >> /\ info.left # << >>
      hasY == info.height # << >> /\ info.top # << >>
      dx == (w.left + w.width) - (info.left[1] + info.width[1])
      dy == (w.top + w.height) - (info.top[1] + info.height[1])
  IN  [newUpdateInfo |->
         [NoInfo EXCEPT !.width = IF hasX THEN <<info.width[1] - dx>> ELSE << >>,
                        !.height = IF hasY THEN <<info.height[1] - dy>> ELSE << >>],
       distance |-> (IF hasX THEN Abs(dx) ELSE 0) + (IF hasY THEN Abs(dy) ELSE 0)]

\* What an X11 window manager does with an update: the client area ends up
\* shifted right and down by the decoration, with the size asked for.
simulateX11UpdateInfo(w, shift, info) ==
  [left |-> IF info.left # << >> THEN info.left[1] + shift.a ELSE w.left,
   top |-> IF info.top # << >> THEN info.top[1] + shift.b ELSE w.top,
   width |-> IF info.width # << >> THEN info.width[1] ELSE w.width,
   height |-> IF info.height # << >> THEN info.height[1] ELSE w.height]

\* Variant of GaveUp that allows one more attempt.
GaveUp_OneMore(i) == i > WINDOW_MANAGER_ATTEMPTS

\* checkWindowUpdated_: if (i >= WINDOW_MANAGER_ATTEMPTS)
GaveUp(i) == i >= WINDOW_MANAGER_ATTEMPTS

\* Variant of TryAgainLater that retries at the tolerance itself.
TryAgainLater_AtTolerance(distance) == distance >= WINDOW_MANAGER_TOLERANCE

\* checkWindowUpdated_: if (fixes.distance > WINDOW_MANAGER_TOLERANCE)
TryAgainLater(distance) == distance > WINDOW_MANAGER_TOLERANCE

NoFixes == [newUpdateInfo |-> NoInfo, distance |-> 0]

\* readbacks: callbacks of get(); observed: the distances they found;
\* fixWrites: corrective updates issued; updates: all chrome.windows.update
\* calls; created: what was passed to chrome.windows.create; callbacks: calls
\* of the callback; atCallback: the
\* position the call was at when the callback ran.
NewLog == [readbacks |-> 0, observed |-> << >>, fixWrites |-> 0, updates |-> 0,
           created |-> << >>, callbacks |-> 0, atCallback |-> "none"]

\* No update() or create() is running and none has run.
ProviderIdle ==
  /\ updateInfo = NoInfo
  /\ createInfo = NoInfo
  /\ win = << >>
  /\ wmPending = << >>
  /\ decoration = [a |-> 0, b |-> 0]
  /\ wpPc = "idle"
  /\ attempt = 0
  /\ fixes = NoFixes
  /\ wpLog = NewLog

(***************************************************************************)
(* VirtualDesktopManager                                                   *)
(***************************************************************************)
Windows == 1..MaxWindows
\* The window states of the model: the code only tells minimized from the rest.
LiveStates == {"normal", MINIMIZED_STATE_}
\* forgetWindow passes the ChromeWindow object it got from getLastFocused (or
\* null) where a window id is expected: it equals no window id.
NoWindowId == 0
\* kind, and the arguments: winId of forgetWindow; desktop, focusedWinId and
\* sendToDesktop of switchToDesktop. removedLast records that forgetWindow
\* deleted the only non-minimized remembered window of the current desktop
\* while another desktop below the count had one.
NoOp == [kind |-> "none", winId |-> NoWindowId, removedLast |-> FALSE, desktop |-> 0,
         focusedWinId |-> NoWindowId, sendToDesktop |-> FALSE]

\* Nothing is recorded about focus and the notification.
NothingFollowed ==
  /\ lastFocusedWindow = NoWindowId
  /\ seenByOnChange = << >>
  /\ gotLastFocused = NoWindowId

\* No operation is running and none has run.
VdmIdle ==
  /\ windows = << >>
  /\ stored = [currentDesktop |-> << >>, windowStates |-> << >>]
  /\ iconDesktop = 0
  /\ pc = "idle"
  /\ op = NoOp
  /\ snapshot = << >>
  /\ prevDesktop = 0
  /\ nAtSwitch = DefaultDesktops
  /\ allStatesRestored = NewBarrier
  /\ done = NewBarrier
  /\ pending = {}
  /\ nUpdates = 0
  /\ nCallbacks = 0
  /\ NothingFollowed

\* localStorage holds strings. The string of a number is the sequence of its
\* decimal digits; a key never written is << >>.
RECURSIVE DecimalString(_)
DecimalString(n) ==
  IF n < 10 THEN <<n>> ELSE Append(DecimalString(n \div 10), n % 10)

\* parseInt(str, 10) of a digit string.
RECURSIVE parseInt(_)
parseInt(str) ==
  IF Len(str) = 1 THEN str[1]
  ELSE 10 * parseInt(SubSeq(str, 1, Len(str) - 1)) + str[Len(str)]

\* Characters of a localStorage string other than the digits 0..9.
Minus == 10
Letter == 11
IsDigit(c) == c \in 0..9

\* The longest prefix of str made of digits.
RECURSIVE DigitPrefix(_)
DigitPrefix(str) ==
  IF str = << >> \/ ~IsDigit(Head(str)) THEN << >>
  ELSE <<Head(str)>> \o DigitPrefix(Tail(str))

\* parseInt(str, 10) of any string, and of undefined (a key never written):
\* an optional minus sign and the digits that follow, whatever comes after
\* them; << >> stands for NaN, the result when no digit is found.
ParseInt10(str) ==
  LET negative == str # << >> /\ Head(str) = Minus
      digits == DigitPrefix(IF negative THEN Tail(str) ELSE str)
  IN  IF digits = << >> THEN << >>
      ELSE IF negative THEN <<0 - parseInt(digits)>>
      ELSE <<parseInt(digits)>>

\* Variant of JsonStringify that loses the state of the windows.
JsonStringify_DropsState(ws) == {<<w, ws[w].desktop, "normal">> : w \in DOMAIN ws}

\* JSON.stringify(windowStates_): the text lists one entry per key.
JsonStringify(ws) == {<<w, ws[w].desktop, ws[w].state>> : w \in DOMAIN ws}

\* JSON.parse of such a text.
JsonParse(text) ==
  [w \in {e[1] : e \in text} |->
     LET e == CHOOSE e \in text : e[1] = w
     IN  [desktop |-> e[2], state |-> e[3]]]

\* saveState_
saveState_(cur, ws) ==
  [currentDesktop |-> DecimalString(cur), windowStates |-> <<JsonStringify(ws)>>]

\* The constructor: currentDesktop_ from localStorage, 0 if absent (NaN).
LoadCurrentDesktop(st) ==
  LET parsed == ParseInt10(st.currentDesktop)
  IN  IF parsed = << >> \/ parsed[1] < 0 THEN 0 ELSE parsed[1]

\* Variant of NotifiedAtConstruction that calls onChange_ with what parseInt
\* returned (0 standing for NaN), before the default is applied.
NotifiedAtConstruction_Raw(st) ==
  LET parsed == ParseInt10(st.currentDesktop)
  IN  IF parsed = << >> THEN 0 ELSE parsed[1]

\* The constructor ends with this.onChange_(this.currentDesktop_).
NotifiedAtConstruction(st) == LoadCurrentDesktop(st)

\* The constructor: windowStates_ from localStorage, '{}' if absent.
LoadWindowStates(st) ==
  IF st.windowStates = << >> THEN << >> ELSE JsonParse(st.windowStates[1])

\* The state updateWindowStates_ records for a live window. The specifications
\* that do not follow window bounds give their windows a state only.
RefreshedState(cur, w) ==
  IF "left" \in DOMAIN w
    THEN [desktop |-> cur, state |-> w.state,
          x |-> w.left, y |-> w.top, w |-> w.width, h |-> w.height]
    ELSE [desktop |-> cur, state |-> w.state]

\* Variant of updateWindowStates_ that keeps the states of windows that are
\* gone.
updateWindowStates_KeepsStale(wins, ws, cur) ==
  [w \in DOMAIN wins \cup DOMAIN ws |->
     IF w \notin DOMAIN wins THEN ws[w]
     ELSE IF \/ w \notin DOMAIN ws
             \/ ws[w].desktop = cur
             \/ wins[w].state # MINIMIZED_STATE_
            THEN RefreshedState(cur, wins[w])
            ELSE ws[w]]

\* Variant of updateWindowStates_ that records every live window anew.
updateWindowStates_RefreshesAll(wins, ws, cur) ==
  [w \in DOMAIN wins |-> RefreshedState(cur, wins[w])]

\* Variant of updateWindowStates_ that leaves a known window of another desktop
\* alone even when it is visible.
updateWindowStates_KeepsKnown(wins, ws, cur) ==
  [w \in DOMAIN wins |->
     IF w \notin DOMAIN ws \/ ws[w].desktop = cur
       THEN RefreshedState(cur, wins[w])
       ELSE ws[w]]

\* updateWindowStates_(windows): the refreshed windowStates_.
updateWindowStates_(wins, ws, cur) ==
  [w \in DOMAIN wins |->
     IF \/ w \notin DOMAIN ws
        \/ ws[w].desktop = cur
        \/ wins[w].state # MINIMIZED_STATE_
       THEN RefreshedState(cur, wins[w])
       ELSE ws[w]]

\* Variant of SendWindow that never moves the window.
SendWindow_Never(ws, sendToDesktop, focusedWinId, desktop) == ws

\* switchToDesktop: if requested, send the given window to the new desktop.
SendWindow(ws, sendToDesktop, focusedWinId, desktop) ==
  IF sendToDesktop /\ focusedWinId \in DOMAIN ws
    THEN [ws EXCEPT ![focusedWinId].desktop = desktop]
    ELSE ws

\* Variant of StateUpdates that leaves the windows of other desktops alone.
StateUpdates_OnlyCurrent(wins, ws, cur) ==
  {w \in DOMAIN wins : ws[w].desktop = cur}

\* The windows applyWindowStates_ updates in its first loop.
StateUpdates(wins, ws, cur) ==
  {w \in DOMAIN wins :
     ws[w].desktop = cur \/ wins[w].state # MINIMIZED_STATE_}

\* The windows applyWindowStates_ updates in its second loop.
BoundsUpdates(wins, ws, cur) ==
  {w \in DOMAIN wins :
     ws[w].desktop = cur /\ ws[w].state # MINIMIZED_STATE_}

\* The state the first loop asks the window facility to give window w.
RequestedState(w, ws, cur) ==
  IF ws[w].desktop = cur THEN ws[w].state ELSE MINIMIZED_STATE_

\* Variant of BoundsFocus that never asks for focus.
BoundsFocus_Never(w, focusedWinId) == FALSE

\* The second loop sets updateInfo.focused for the window given as focusedWinId.
BoundsFocus(w, focusedWinId) == w = focusedWinId

\* The window that has focus once the window facility has performed an update
\* of the first loop for window w, lf having had it before: the update gives
\* focus to a window it does not minimize; minimizing a window may move focus to
\* any window that is not minimized.
FocusAfterStateUpdate(w, wins, ws, cur, lf) ==
  IF RequestedState(w, ws, cur) # MINIMIZED_STATE_
    THEN {w}
    ELSE {lf} \cup {v \in DOMAIN wins \ {w} : wins[v].state # MINIMIZED_STATE_}

\* The window that has focus when the window facility performs every update
\* inside update(): the one the second loop asks focus for, else any the first
\* loop left it with.
FocusAfterSyncUpdates(wins, second, focusedWinId, lf) ==
  IF \E w \in second : BoundsFocus(w, focusedWinId)
    THEN {w \in second : BoundsFocus(w, focusedWinId)}
    ELSE {lf} \cup {v \in DOMAIN wins : wins[v].state # MINIMIZED_STATE_}

\* Variant of ObservedByOnChange for onChange_ called after saveState_.
ObservedByOnChange_AfterSave(before, after) == <<after>>

\* switchToDesktop calls onChange_ and then saveState_: onChange_ finds
\* localStorage as the previous operation left it.
ObservedByOnChange(before, after) == <<before>>

\* What forgetWindow passes as focusedWinId: the ChromeWindow object (or null)
\* that getLastFocused returned, which equals no window id.
FocusedArgument(lastWin) == NoWindowId

Updates(S, phase) == {[id |-> w, phase |-> phase] : w \in S}

(***************************************************************************)
(* Specification of numberToDesktopId_ as a function of its inputs.        *)
(***************************************************************************)
FnWindows == {1, 2}
Requests == (0 - MaxBelow)..(MaxCurrent + 2)
FnStates == {"normal", MINIMIZED_STATE_}
FnWindowStates ==
  UNION {[S -> [desktop : 0..MaxWinDesktop, state : FnStates]] : S \in SUBSET FnWindows}

InitFn ==
  /\ desktopsSetting \in {<<i>> : i \in MinDesktops..MaxDesktops}
  /\ currentDesktop_ \in 0..MaxCurrent
  /\ windowStates_ \in FnWindowStates
  /\ reqDesktop = 0
  /\ disallowEmpty = FALSE
  /\ ret = 0
  /\ called = FALSE
  /\ VdmIdle
  /\ QueueIdle
  /\ BarrierIdle
  /\ ProviderIdle

CallNumberToDesktopId ==
  \E r \in Requests, d \in BOOLEAN :
    /\ ~called
    /\ reqDesktop' = r
    /\ disallowEmpty' = d
    /\ ret' = numberToDesktopId_(r, d, currentDesktop_, windowStates_, getDesktops)
    /\ called' = TRUE
    /\ UNCHANGED <<desktopsSetting, currentDesktop_, windowStates_, vdmVars, queueVars,
                   barrierVars, providerVars>>

NextFn == CallNumberToDesktopId

SpecFn == InitFn /\ [][NextFn]_vars

\* The count had shrunk below the stored current desktop when the call was made.
Shrunk == currentDesktop_ > getDesktops - 1

\* Some desktop below the count holds a remembered window that is not
\* minimized.
SomeDesktopOccupied ==
  \E d \in 0..(getDesktops - 1) : nWindowsOnDesktop(windowStates_, d) > 0

\* C37: numberToDesktopId_ without disallowEmpty is idempotent at a fixed
\* current desktop and desktop count, shrunk or not: normalizing its result
\* again returns that result, so the second call switchToDesktop makes can
\* only change the desktop by avoiding an empty one.
C37_NormalizeIdempotent ==
  (called /\ ~disallowEmpty) =>
    /\ numberToDesktopId_(ret, FALSE, currentDesktop_, windowStates_, getDesktops) = ret
    /\ WrapDesktop(ShrinkRemap(ret, currentDesktop_, getDesktops), getDesktops) = ret

\* The count had shrunk, and a request right of the stored current desktop
\* was shifted and wrapped to another number.
C37_Witness ==
  /\ called /\ ~disallowEmpty /\ Shrunk
  /\ reqDesktop > currentDesktop_
  /\ ret # reqDesktop
  /\ ret > 0

\* C26: for every current desktop, request and set of remembered states,
\* numberToDesktopId_ with disallowEmpty returns a desktop without a remembered
\* non-minimized window only if no desktop below the count has one.
C26_EmptyOnlyIfAllEmpty ==
  (called /\ disallowEmpty /\ nWindowsOnDesktop(windowStates_, ret) = 0)
    => ~SomeDesktopOccupied

\* The wrapped request and the clamped current desktop of the call made.
WrappedRequest == WrapDesktop(ShrinkRemap(reqDesktop, currentDesktop_, getDesktops),
                              getDesktops)
ClampedCurrent == ClampedCurrentDesktop(currentDesktop_, getDesktops)

\* The number congruent to d modulo n among the n numbers from lo upwards.
CircularDifference(d, n, lo) == CHOOSE m \in lo..(lo + n - 1) : (m - d) % n = 0

\* -1 for a difference that is negative or zero, +1 for a positive one.
StepOf(m) == IF m <= 0 THEN 0 - 1 ELSE 1

\* The wrapped request is exactly half the count away from the clamped current
\* desktop.
HalfWay == 2 * (WrappedRequest - ClampedCurrent) \in {getDesktops, 0 - getDesktops}

\* C27: in empty-desktop avoidance the direction is the sign of (wrapped
\* request - clamped current desktop) mapped into [-N/2, N/2): a difference of
\* exactly N/2 or -N/2 steps backward, any other difference steps along the
\* shorter way round, and a zero difference steps backward; the result is
\* what the walk in that direction yields.
C27_HalfWayStepsBackward ==
  (called /\ disallowEmpty) =>
    LET n == getDesktops
        m == CircularDifference(WrappedRequest - ClampedCurrent, n, 0 - (n \div 2))
    IN  /\ Direction(WrappedRequest, ClampedCurrent, n) = StepOf(m)
        /\ HalfWay => StepOf(m) = 0 - 1
        /\ ret = SkipEmpty(WrappedRequest, StepOf(m), ClampedCurrent, windowStates_, n)

\* Four desktops, the request two desktops away from the current desktop 0 is
\* empty, desktops 1 and 3 are occupied: the result is 1, the desktop behind.
C27_Witness ==
  /\ called /\ disallowEmpty
  /\ getDesktops = 4 /\ currentDesktop_ = 0 /\ reqDesktop = 2
  /\ nWindowsOnDesktop(windowStates_, 1) > 0
  /\ nWindowsOnDesktop(windowStates_, 3) > 0
  /\ nWindowsOnDesktop(windowStates_, 2) = 0
  /\ ret = 1

\* C27 as stated: the difference is mapped into (-N/2, N/2], so that a
\* difference of exactly N/2 or -N/2 steps forward.
C27_Original ==
  (called /\ disallowEmpty) =>
    LET n == getDesktops
        m == CircularDifference(WrappedRequest - ClampedCurrent, n,
                                0 - ((n - 1) \div 2))
    IN  /\ Direction(WrappedRequest, ClampedCurrent, n) = StepOf(m)
        /\ HalfWay => StepOf(m) = 1
        /\ ret = SkipEmpty(WrappedRequest, StepOf(m), ClampedCurrent, windowStates_, n)

\* C5: for every desktop count N in 1..10, every stored current desktop >= 0,
\* every integer request and every set of remembered window states, the value
\* numberToDesktopId_ returns lies in [0, N), with and without disallowEmpty.
C5_ResultInRange == called => ret \in 0..(getDesktops - 1)

C5_Witness ==
  /\ called /\ disallowEmpty /\ Shrunk
  /\ reqDesktop < 0 - getDesktops
  /\ \E w \in DOMAIN windowStates_ : windowStates_[w].state # MINIMIZED_STATE_

\* The inputs of the shrink remap example: current desktop 4, count 3, request 5.
ShrinkExample ==
  /\ called /\ ~disallowEmpty
  /\ currentDesktop_ = 4 /\ getDesktops = 3 /\ reqDesktop = 5

\* C8 as stated: with current desktop 4 and the count shrunk to 3, request 5
\* normalizes (disallowEmpty = false) to 2.
C8_Original == ShrinkExample => ret = 2

\* C8 amended: with current desktop 4 and the count shrunk to 3, request 5
\* normalizes (disallowEmpty = false) to 0: it is shifted left by 4 - 2 to 3
\* and then wrapped.
C8_ShrinkExampleWrapsToZero == ShrinkExample => ret = 0

C8_Witness == ShrinkExample /\ ret = 0

\* C9: whenever the current desktop exceeds N-1, every request r with
\* N-1 <= r <= currentDesktop_ normalizes (disallowEmpty = false) to N-1.
C9_CollapseToMax ==
  (/\ called /\ ~disallowEmpty /\ Shrunk
   /\ getDesktops - 1 <= reqDesktop /\ reqDesktop <= currentDesktop_)
  => ret = getDesktops - 1

\* Requesting the previous desktop from a deleted one, two or more beyond the end.
C9_Witness ==
  /\ called /\ ~disallowEmpty /\ Shrunk
  /\ reqDesktop = currentDesktop_ - 1 /\ reqDesktop > getDesktops - 1
  /\ ret = getDesktops - 1

\* C10: whenever the current desktop exceeds N-1, requesting the next desktop
\* (currentDesktop_ + 1) normalizes (disallowEmpty = false) to desktop 0.
C10_NextFromDeletedIsZero ==
  (/\ called /\ ~disallowEmpty /\ Shrunk /\ reqDesktop = currentDesktop_ + 1)
  => ret = 0

C10_Witness ==
  /\ called /\ ~disallowEmpty /\ Shrunk /\ reqDesktop = currentDesktop_ + 1
  /\ getDesktops >= 2 /\ currentDesktop_ > getDesktops /\ ret = 0

(***************************************************************************)
(* Specification of a WakeupQueue and the closures added to it.            *)
(***************************************************************************)
InitQueue ==
  /\ desktopsSetting = << >>
  /\ currentDesktop_ = 0
  /\ windowStates_ = << >>
  /\ reqDesktop = 0 /\ disallowEmpty = FALSE /\ ret = 0 /\ called = FALSE
  /\ VdmIdle
  /\ QueueIdle
  /\ BarrierIdle
  /\ ProviderIdle

theQueue == [queue |-> queue_, started |-> started, signalled |-> signalled]

queueUnchanged == <<desktopsSetting, currentDesktop_, windowStates_, fnVars, vdmVars,
                    barrierVars, providerVars>>

\* A handler calls add(func); behind is the length of queue_ at the call.
Add ==
  \E sync \in BOOLEAN :
    /\ Len(taskLog) < MaxTasks
    /\ LET t == [id |-> Len(taskLog) + 1, sync |-> sync]
           q == add(theQueue, t)
       IN  /\ queue_' = q.queue
           /\ started' = q.started
           /\ signalled' = q.signalled
           /\ taskLog' = Append(taskLog, [sync |-> sync, behind |-> Len(queue_)])
    /\ UNCHANGED queueUnchanged

\* The running closure calls its finished argument after it has returned.
Finished ==
  /\ Len(queue_) > 0
  /\ Head(queue_).id \notin signalled
  /\ LET q == wakeupNext_([theQueue EXCEPT !.signalled = @ \cup {Head(queue_).id}])
     IN  /\ queue_' = q.queue
         /\ started' = q.started
         /\ signalled' = q.signalled
  /\ UNCHANGED <<taskLog, queueUnchanged>>

NextQueue == Add \/ Finished

SpecQueue == InitQueue /\ [][NextQueue]_vars

\* The closures the queue has called and that have not called finished yet.
Active == {started[i] : i \in 1..Len(started)} \ signalled

\* C3: the closures start strictly in the order of the add() calls, a closure
\* starts only after every closure added before it has called its completion
\* signal, and at most one closure is active at any time.
C3_FifoOneAtATime ==
  /\ \A i \in 1..Len(started) : started[i] = i
  /\ \A i \in 1..Len(started) : \A j \in 1..(started[i] - 1) : j \in signalled
  /\ Cardinality(Active) <= 1

\* A, B and C were added while A was pending, and all three have started.
C3_Witness ==
  /\ Len(taskLog) >= 3 /\ Len(started) >= 3
  /\ ~taskLog[1].sync /\ taskLog[2].behind = 1 /\ taskLog[3].behind = 2
  /\ Cardinality(Active) = 1

\* Every closure the queue has called calls its finished argument in the end.
SpecQueueLive == SpecQueue /\ WF_vars(Finished)

\* C38: when every closure calls finished once, every closure added is called
\* in the end and none is called twice, and a queue that is not idle becomes
\* idle, whether closures call finished before they return or later and
\* whether closures are added while one is running.
C38_EveryTaskStartsOnce ==
  /\ [](\A i, j \in 1..Len(started) : started[i] = started[j] => i = j)
  /\ \A t \in 1..MaxTasks :
       (Len(taskLog) >= t) ~> (\E k \in 1..Len(started) : started[k] = t)
  /\ (~isIdle(theQueue)) ~> isIdle(theQueue)

\* Closures were added behind a running one, one of them calls finished before
\* it returns, all have been called, and the queue is idle again.
C38_Witness ==
  /\ Len(taskLog) >= 3 /\ Len(started) = Len(taskLog)
  /\ ~taskLog[1].sync /\ taskLog[2].behind = 1 /\ taskLog[3].behind = 2
  /\ taskLog[2].sync
  /\ isIdle(theQueue)

\* C20: add() on an idle queue calls the closure before it returns; add() while
\* another closure is active does not call the closure it was given.
C20_AddStartsOnlyWhenIdle ==
  [][Len(taskLog') = Len(taskLog) + 1 =>
       LET i == Len(taskLog')
       IN  /\ Len(queue_) = 0 =>
                \E k \in (Len(started) + 1)..Len(started') : started'[k] = i
           /\ Len(queue_) > 0 =>
                /\ started' = started
                /\ queue_' = Append(queue_, [id |-> i, sync |-> taskLog'[i].sync])
     ]_vars

\* The first closure was called by add() and is active; the second, added
\* behind it, has not been called.
C20_Witness ==
  /\ Len(taskLog) = 2
  /\ taskLog[1].behind = 0 /\ ~taskLog[1].sync /\ taskLog[2].behind = 1
  /\ started = <<1>> /\ signalled = {}
  /\ Len(queue_) = 2

\* The closures given to add() so far that have not called finished.
Unfinished == (1..Len(taskLog)) \ signalled

\* C21: isIdle() is true exactly when no closure is waiting or running, that
\* is, when every closure given to add() so far has called finished; this
\* includes the moment add() returns after a closure that called finished
\* before it returned.
C21_IdleIffNothingPending == isIdle(theQueue) <=> Unfinished = {}

\* The queue went busy and idle again, and the last add() was of a closure that
\* finished before add() returned, on an idle queue.
C21_Witness ==
  /\ Len(taskLog) >= 2
  /\ ~taskLog[1].sync
  /\ taskLog[Len(taskLog)].sync /\ taskLog[Len(taskLog)].behind = 0
  /\ isIdle(theQueue)

\* C22: as long as a closure that was called has not called finished, no
\* step calls any other closure and isIdle() is false after every step.
C22_StalledTaskBlocksQueue ==
  [][\A i \in Active : i \in Active' => (started' = started /\ ~isIdle(theQueue'))]_vars

\* The first closure never called finished while every other closure was
\* added behind it; none of them has been called.
C22_Witness ==
  /\ Len(taskLog) = MaxTasks
  /\ started = <<1>> /\ signalled = {}
  /\ Len(queue_) = MaxTasks

(***************************************************************************)
(* Specification of the WindowManagerService_ handlers: every message and  *)
(* every onRemoved event adds a closure to the WakeupQueue; the closure    *)
(* calls switchToDesktop or forgetWindow and passes the queue's finished   *)
(* as (part of) the callback. Here taskLog records, for each closure, the  *)
(* operation it calls and how far that operation has got: "queued", then   *)
(* "getLastFocused" (forgetWindow has deleted and saved, and queried the   *)
(* last focused window), "getAll" (switchToDesktop has queried the         *)
(* windows), "applying" (it has changed the state and issued updates),     *)
(* and "finished" once its callback has run. A move-window message calls   *)
(* WindowProvider.update ("updating"); an extract-tab message calls        *)
(* WindowProvider.create ("creating" until chrome.windows.create calls     *)
(* back, "createUpdating" while the chained update runs) and, when         *)
(* fullscreen, one more update ("updating"). "failed" is the operation     *)
(* whose create callback threw. Each entry counts the sendResponse and     *)
(* finished calls of its closure.                                          *)
(***************************************************************************)
\* The requests of messageHandler_: the four desktop requests ("switch"),
\* MOVE_WINDOW ("moveWindow"), and EXTRACT_TAB without and with fullscreen
\* ("positionTab", "maximizeTab").
MessageKinds == {"switch", "moveWindow", "positionTab", "maximizeTab"}

OperationKinds == MessageKinds \cup {"forget"}

ActivePositions == {"getLastFocused", "getAll", "applying", "updating", "creating",
                    "createUpdating", "failed"}

\* The first step of the operation a closure calls.
FirstPosition(kind) ==
  CASE kind = "forget" -> "getLastFocused"
    [] kind = "switch" -> "getAll"
    [] kind = "moveWindow" -> "updating"
    [] kind = "other" -> "returned"
    [] OTHER -> "creating"

\* The log once the queue has called the closures of q.started beyond the
\* first n of them.
Called(log, q, n) ==
  [i \in 1..Len(log) |->
     IF \E k \in (n + 1)..Len(q.started) : q.started[k] = i
       THEN [log[i] EXCEPT !.pos = FirstPosition(log[i].kind)]
       ELSE log[i]]

\* A handler adds the closure of an operation of the given kind.
Enqueue(kind) ==
  /\ Len(taskLog) < MaxTasks
  /\ LET t == [id |-> Len(taskLog) + 1, sync |-> FALSE]
         q == add(theQueue, t)
         entry == [kind |-> kind, pos |-> "queued", behind |-> Len(queue_),
                   responses |-> 0, finishes |-> 0]
     IN  /\ queue_' = q.queue
         /\ started' = q.started
         /\ signalled' = q.signalled
         /\ taskLog' = Called(Append(taskLog, entry), q, Len(started))
  /\ UNCHANGED queueUnchanged

\* messageHandler_ for one of the six requests.
MessageHandler == \E kind \in MessageKinds : Enqueue(kind)

\* Variant of RemovedHandler that calls forgetWindow without the queue.
RemovedHandler_Unqueued ==
  /\ Len(taskLog) < MaxTasks
  /\ taskLog' = Append(taskLog, [kind |-> "forget", pos |-> "getLastFocused",
                                 behind |-> Len(queue_),
                                 responses |-> 0, finishes |-> 0])
  /\ started' = Append(started, Len(taskLog) + 1)
  /\ queue_' = queue_
  /\ signalled' = signalled
  /\ UNCHANGED queueUnchanged

\* removedHandler_
RemovedHandler == Enqueue("forget")

\* A window query of a running operation calls back: forgetWindow goes on to
\* switchToDesktop, switchToDesktop changes the state and issues its updates.
QueryCallback ==
  \E i \in 1..Len(taskLog) :
    /\ taskLog[i].pos \in {"getLastFocused", "getAll"}
    /\ taskLog' = [taskLog EXCEPT ![i].pos =
                     IF @ = "getLastFocused" THEN "getAll" ELSE "applying"]
    /\ UNCHANGED <<queue_, started, signalled, queueUnchanged>>

\* chrome.windows.create calls back with the new window: WindowProvider.create
\* sets its timer and then runs update.
ChromeCreated ==
  \E i \in 1..Len(taskLog) :
    /\ taskLog[i].pos = "creating"
    /\ taskLog' = [taskLog EXCEPT ![i].pos = "createUpdating"]
    /\ UNCHANGED <<queue_, started, signalled, queueUnchanged>>

\* chrome.windows.create calls back after an error (the tab is gone): win is
\* undefined and win.id throws inside the callback, so no timer is set and the
\* callback given to create is never called.
ChromeCreateFails ==
  \E i \in 1..Len(taskLog) :
    /\ taskLog[i].pos = "creating"
    /\ taskLog' = [taskLog EXCEPT ![i].pos = "failed"]
    /\ UNCHANGED <<queue_, started, signalled, queueUnchanged>>

\* WindowProvider.create calls the function maximizeTab_ gave it, which calls
\* update to maximize the new window.
MaximizeCreated ==
  \E i \in 1..Len(taskLog) :
    /\ taskLog[i].pos = "createUpdating"
    /\ taskLog[i].kind = "maximizeTab"
    /\ taskLog' = [taskLog EXCEPT ![i].pos = "updating"]
    /\ UNCHANGED <<queue_, started, signalled, queueUnchanged>>

\* The operation at position pos of a closure of the given kind calls the
\* callback it was given.
CallsBack(kind, pos) ==
  \/ pos \in {"getAll", "applying", "updating"}
  \/ pos = "createUpdating" /\ kind = "positionTab"

\* The callback of a running operation runs (from the getAll callback when the
\* desktop did not change, else after the last acknowledgement): for a message
\* it calls sendResponse, and it calls finished.
OperationCallback ==
  \E i \in 1..Len(taskLog) :
    /\ CallsBack(taskLog[i].kind, taskLog[i].pos)
    /\ LET q == wakeupNext_([theQueue EXCEPT !.signalled = @ \cup {i}])
           responded == IF taskLog[i].kind \in MessageKinds THEN 1 ELSE 0
       IN  /\ queue_' = q.queue
           /\ started' = q.started
           /\ signalled' = q.signalled
           /\ taskLog' = Called([taskLog EXCEPT ![i].pos = "finished",
                                                ![i].responses = @ + responded,
                                                ![i].finishes = @ + 1], q,
                                Len(started))
    /\ UNCHANGED queueUnchanged

NextService ==
  \/ MessageHandler
  \/ RemovedHandler
  \/ QueryCallback
  \/ ChromeCreated
  \/ ChromeCreateFails
  \/ MaximizeCreated
  \/ OperationCallback

SpecService == InitQueue /\ [][NextService]_vars

\* The operations that have started and whose callback has not run.
RunningOperations == {i \in 1..Len(taskLog) : taskLog[i].pos \in ActivePositions}

\* C12: whatever the order of messages and onRemoved events, at most one
\* operation is between its start and its callback, so only that operation
\* queries windows, updates windows or changes state; it is the one at the head
\* of the queue, and every operation added before it has called back.
C12_OperationsNeverInterleave ==
  /\ Cardinality(RunningOperations) <= 1
  /\ Len(started) - Cardinality(signalled) <= 1
  /\ \A i \in RunningOperations :
       /\ Len(queue_) > 0 /\ Head(queue_).id = i
       /\ \A j \in 1..(i - 1) : taskLog[j].pos = "finished"

\* Every external call of a running operation calls back in the end, one way
\* or the other; messages and onRemoved events need not arrive.
SpecServiceLive ==
  /\ SpecService
  /\ WF_vars(QueryCallback)
  /\ WF_vars(ChromeCreated \/ ChromeCreateFails)
  /\ WF_vars(MaximizeCreated)
  /\ WF_vars(OperationCallback)

\* The closures added by messageHandler_.
Messages == {i \in 1..Len(taskLog) : taskLog[i].kind \in MessageKinds}

\* C24: every message of the six request kinds is answered by sendResponse
\* exactly once and its closure calls finished exactly once: never twice, the
\* answer is sent in the step in which the operation's last external call
\* called back, while no closure added later has been called, and every
\* message is answered in the end.
C24_EveryMessageAcknowledgedOnce ==
  /\ [](\A i \in Messages :
          /\ taskLog[i].responses <= 1 /\ taskLog[i].finishes <= 1
          /\ taskLog[i].responses = taskLog[i].finishes
          /\ taskLog[i].responses = 1 <=> taskLog[i].pos = "finished")
  /\ [][\A i \in Messages :
          taskLog'[i].responses # taskLog[i].responses =>
            /\ CallsBack(taskLog[i].kind, taskLog[i].pos)
            /\ \A k \in 1..Len(started) : started[k] <= i]_vars
  /\ \A i \in 1..MaxTasks :
       (i \in Messages) ~> (i \in Messages /\ taskLog[i].responses = 1)

\* messageHandler_ for a message whose request is none of the six: the switch
\* statement has no default case, so the closure, once called, returns
\* ("returned") without calling an operation, sendResponse or finished.
UnknownRequestHandler == Enqueue("other")

\* The handlers with messages of any request, and a chrome.windows.create that
\* succeeds.
NextAnyRequest ==
  \/ MessageHandler
  \/ UnknownRequestHandler
  \/ RemovedHandler
  \/ QueryCallback
  \/ ChromeCreated
  \/ MaximizeCreated
  \/ OperationCallback

SpecAnyRequest == InitQueue /\ [][NextAnyRequest]_vars

\* Every external call of a running operation calls back in the end.
SpecAnyRequestLive ==
  /\ SpecAnyRequest
  /\ WF_vars(QueryCallback)
  /\ WF_vars(ChromeCreated)
  /\ WF_vars(MaximizeCreated)
  /\ WF_vars(OperationCallback)

\* The closures added by messageHandler_, whatever the request.
AnyMessages ==
  {i \in 1..Len(taskLog) : taskLog[i].kind \in MessageKinds \cup {"other"}}

\* C39: the closure of every message, whatever its request, calls finished in
\* the end, when every call to chrome.windows calls back.
C39_EveryRequestFinishes ==
  \A i \in 1..MaxTasks :
    (i \in AnyMessages) ~> (i \in signalled /\ taskLog[i].finishes = 1)

\* A switch has called back, a forgetWindow added behind it is applying its
\* updates, and a switch added behind both is still queued.
C12_Witness ==
  /\ Len(taskLog) >= 3
  /\ taskLog[1].kind = "switch" /\ taskLog[1].pos = "finished"
  /\ taskLog[2].kind = "forget" /\ taskLog[2].behind = 1
  /\ taskLog[2].pos = "applying"
  /\ taskLog[3].kind = "switch" /\ taskLog[3].behind = 2
  /\ taskLog[3].pos = "queued"

(***************************************************************************)
(* Specification of one BarrierClosure and its callers.                    *)
(***************************************************************************)
InitBarrier == InitQueue

barrierUnchanged == <<desktopsSetting, currentDesktop_, windowStates_, fnVars, vdmVars,
                      queueVars, providerVars>>

\* get(): called before finalize() only.
Get ==
  /\ ~barrier.finalized
  /\ obtained < MaxSignals
  /\ barrier' = BarrierGet(barrier)
  /\ obtained' = obtained + 1
  /\ UNCHANGED <<fired, drained, barrierUnchanged>>

\* A closure obtained from get() is called.
Signal ==
  \E i \in (1..obtained) \ fired :
    /\ barrier' = BarrierSignal(barrier)
    /\ fired' = fired \cup {i}
    /\ drained' = (drained \/ (fired' = 1..obtained /\ ~barrier.finalized))
    /\ UNCHANGED <<obtained, barrierUnchanged>>

\* finalize(): called once.
Finalize ==
  /\ ~barrier.finalized
  /\ barrier' = BarrierFinalize(barrier)
  /\ UNCHANGED <<obtained, fired, drained, barrierUnchanged>>

\* then(func): called once.
Then ==
  /\ ~barrier.then
  /\ barrier' = BarrierThen(barrier)
  /\ UNCHANGED <<obtained, fired, drained, barrierUnchanged>>

NextBarrier == Get \/ Signal \/ Finalize \/ Then

SpecBarrier == InitBarrier /\ [][NextBarrier]_vars

\* Everything the continuation waits for has happened.
AllIn == barrier.finalized /\ fired = 1..obtained

\* C4: the continuation runs exactly once, and never before finalize() has
\* been called and every closure obtained from get() has been called; the
\* count dropping to zero before finalize() does not run it.
C4_FiresOnceWhenAllIn ==
  /\ barrier.fired <= 1
  /\ barrier.fired = 1 => (AllIn /\ barrier.then)
  /\ (AllIn /\ barrier.then) => barrier.fired = 1

\* The count dropped to zero before finalize(), and the continuation has run.
C4_Witness == drained /\ obtained >= 2 /\ barrier.fired = 1

\* C23: a barrier from which no closure was obtained runs its continuation in
\* the very step that makes both finalize() and then() called, whichever of
\* the two comes last, and it runs it once.
C23_EmptyBarrierFiresAtOnce ==
  [][obtained' = 0 =>
       barrier'.fired = (IF barrier'.finalized /\ barrier'.then THEN 1 ELSE 0)]_vars

\* No closure was obtained, finalize() and then() were both called, and the
\* continuation has run.
C23_Witness ==
  /\ obtained = 0
  /\ barrier.finalized /\ barrier.then
  /\ barrier.fired = 1

(***************************************************************************)
(* Specification of the VirtualDesktopManager: its operations, the window  *)
(* facility acknowledging updates, and the user acting on windows and      *)
(* settings.                                                               *)
(***************************************************************************)
otherVars == <<fnVars, queueVars, barrierVars, providerVars>>

fnIdle == reqDesktop = 0 /\ disallowEmpty = FALSE /\ ret = 0 /\ called = FALSE

\* The constructor on an empty localStorage, with the default desktop count.
Init ==
  /\ desktopsSetting = << >>
  /\ currentDesktop_ = 0
  /\ windowStates_ = << >>
  /\ fnIdle
  /\ VdmIdle
  /\ QueueIdle
  /\ BarrierIdle
  /\ ProviderIdle

\* Variant of ShouldApply that applies the window states on every switch.
ShouldApply_Always(newCurrent, prev) == TRUE

\* if (this.currentDesktop_ != prevDesktop)
ShouldApply(newCurrent, prev) == newCurrent # prev

\* switchToDesktop(desktop, focusedWinId, sendToDesktop, callback) up to the
\* call of windowProvider_.getAll.
SwitchToDesktop ==
  \E delta \in {0 - 1, 0, 1}, f \in Windows, s \in BOOLEAN :
    /\ pc = "idle"
    /\ op' = [NoOp EXCEPT !.kind = "switch", !.desktop = currentDesktop_ + delta,
                           !.focusedWinId = f, !.sendToDesktop = s]
    /\ pc' = "getAll"
    /\ nUpdates' = 0
    /\ nCallbacks' = 0
    /\ UNCHANGED <<desktopsSetting, currentDesktop_, windowStates_, otherVars, windows,
                   stored, iconDesktop, snapshot, prevDesktop, nAtSwitch,
                   allStatesRestored, done, pending, followedVars>>

\* The callback of windowProvider_.getAll in switchToDesktop, including the
\* synchronous part of applyWindowStates_. The window facility acknowledges
\* its updates either inside update() (sync, as FakeWindowProvider does) or
\* later (as chrome.windows does).
GetAllStep(sync) ==
    /\ pc = "getAll"
    /\ LET n == getDesktops
           refreshed == updateWindowStates_(windows, windowStates_, currentDesktop_)
           desktop == numberToDesktopId_(op.desktop, FALSE, currentDesktop_,
                                         refreshed, n)
           sent == SendWindow(refreshed, op.sendToDesktop, op.focusedWinId, desktop)
           newCurrent == numberToDesktopId_(desktop, DISALLOW_EMPTY_DESKTOPS,
                                            currentDesktop_, sent, n)
           first == StateUpdates(windows, sent, newCurrent)
           second == BoundsUpdates(windows, sent, newCurrent)
           b1 == BarrierThen(BarrierFinalize(
                   BarrierLoop(NewBarrier, Cardinality(first), sync)))
           d1 == IF b1.fired > 0
                   THEN BarrierFinalize(
                          BarrierLoop(NewBarrier, Cardinality(second), sync))
                   ELSE NewBarrier
           d2 == BarrierThen(d1)
           issued == Updates(first, 1) \cup
                       (IF b1.fired > 0 THEN Updates(second, 2) ELSE {})
       IN  /\ snapshot' = windows
           /\ windowStates_' = sent
           /\ prevDesktop' = currentDesktop_
           /\ nAtSwitch' = n
           /\ currentDesktop_' = newCurrent
           /\ iconDesktop' = newCurrent
           /\ stored' = saveState_(newCurrent, sent)
           /\ IF ShouldApply(newCurrent, currentDesktop_)
                THEN /\ allStatesRestored' = b1
                     /\ done' = d2
                     /\ pending' = IF sync THEN {} ELSE issued
                     /\ windows' =
                          IF sync
                            THEN [w \in DOMAIN windows |->
                                    IF w \in first
                                      THEN [state |->
                                              RequestedState(w, sent, newCurrent)]
                                      ELSE windows[w]]
                            ELSE windows
                     /\ nUpdates' = nUpdates + Cardinality(issued)
                     /\ nCallbacks' = nCallbacks + d2.fired
                     /\ pc' = IF d2.fired > 0 THEN "done" ELSE "applying"
                ELSE /\ nCallbacks' = nCallbacks + 1
                     /\ pc' = "done"
                     /\ UNCHANGED <<allStatesRestored, done, pending, nUpdates,
                                    windows>>
    /\ UNCHANGED <<desktopsSetting, otherVars, op>>

GetAllCallback == \E sync \in BOOLEAN : GetAllStep(sync) /\ UNCHANGED followedVars

\* The window facility applies and acknowledges an update of the first loop.
AckStateStep(u) ==
    /\ u.phase = 1
    /\ LET b1 == BarrierSignal(allStatesRestored)
           fires == b1.fired > allStatesRestored.fired
           second == BoundsUpdates(snapshot, windowStates_, currentDesktop_)
           d1 == IF fires
                   THEN BarrierFinalize(BarrierGetTimes(done, Cardinality(second)))
                   ELSE done
       IN  /\ windows' = IF u.id \in DOMAIN windows
                            THEN [windows EXCEPT ![u.id].state =
                                    RequestedState(u.id, windowStates_, currentDesktop_)]
                            ELSE windows
           /\ allStatesRestored' = b1
           /\ done' = d1
           /\ pending' = (pending \ {u}) \cup
                           (IF fires THEN Updates(second, 2) ELSE {})
           /\ nUpdates' = nUpdates + (IF fires THEN Cardinality(second) ELSE 0)
           /\ nCallbacks' = nCallbacks + (d1.fired - done.fired)
           /\ pc' = IF d1.fired > done.fired THEN "done" ELSE pc
    /\ UNCHANGED <<desktopsSetting, currentDesktop_, windowStates_, otherVars, stored,
                   iconDesktop, op, snapshot, prevDesktop, nAtSwitch>>

AckStateUpdate == \E u \in pending : AckStateStep(u) /\ UNCHANGED followedVars

\* The window facility acknowledges an update of the second loop.
AckBoundsStep(u) ==
    /\ u.phase = 2
    /\ LET d1 == BarrierSignal(done)
       IN  /\ done' = d1
           /\ pending' = pending \ {u}
           /\ nCallbacks' = nCallbacks + (d1.fired - done.fired)
           /\ pc' = IF d1.fired > done.fired THEN "done" ELSE pc
    /\ UNCHANGED <<desktopsSetting, currentDesktop_, windowStates_, otherVars, windows,
                   stored, iconDesktop, op, snapshot, prevDesktop, nAtSwitch,
                   allStatesRestored, nUpdates>>

AckBoundsUpdate == \E u \in pending : AckBoundsStep(u) /\ UNCHANGED followedVars

\* Window w is the only non-minimized remembered window of the current desktop
\* and another desktop below the count has one.
RemovesLast(w) ==
  /\ w \in DOMAIN windowStates_
  /\ windowStates_[w].state # MINIMIZED_STATE_
  /\ windowStates_[w].desktop = currentDesktop_
  /\ nWindowsOnDesktop(windowStates_, currentDesktop_) = 1
  /\ \E d \in 0..(getDesktops - 1) :
       d # currentDesktop_ /\ nWindowsOnDesktop(windowStates_, d) > 0

\* The onRemoved handler: forgetWindow(winId, callback) for a closed window, up
\* to the call of windowProvider_.getLastFocused.
ForgetWindow ==
  \E w \in (Windows \cup DOMAIN windowStates_) \ DOMAIN windows :
    /\ pc = "idle"
    /\ LET ws == [v \in DOMAIN windowStates_ \ {w} |-> windowStates_[v]]
       IN  /\ windowStates_' = ws
           /\ stored' = saveState_(currentDesktop_, ws)
    /\ op' = [NoOp EXCEPT !.kind = "forget", !.winId = w,
                           !.removedLast = RemovesLast(w)]
    /\ nUpdates' = 0
    /\ IF DISALLOW_EMPTY_DESKTOPS
         THEN pc' = "getLastFocused" /\ nCallbacks' = 0
         ELSE pc' = "done" /\ nCallbacks' = 1
    /\ UNCHANGED <<desktopsSetting, currentDesktop_, otherVars, windows, iconDesktop,
                   snapshot, prevDesktop, nAtSwitch, allStatesRestored, done, pending,
                   followedVars>>

\* The callback of windowProvider_.getLastFocused in forgetWindow: the switch
\* to the current desktop, up to the call of windowProvider_.getAll.
GetLastFocusedStep(lastWin) ==
  /\ pc = "getLastFocused"
  /\ op' = [op EXCEPT !.desktop = currentDesktop_,
                      !.focusedWinId = FocusedArgument(lastWin)]
  /\ pc' = "getAll"
  /\ UNCHANGED <<desktopsSetting, currentDesktop_, windowStates_, otherVars, windows,
                 stored, iconDesktop, snapshot, prevDesktop, nAtSwitch,
                 allStatesRestored, done, pending, nUpdates, nCallbacks>>

GetLastFocusedCallback ==
  \E lastWin \in DOMAIN windows \cup {NoWindowId} :
    GetLastFocusedStep(lastWin) /\ UNCHANGED followedVars

\* The callback has returned: the operation and the locals of its closures are
\* gone.
CallbackReturns ==
  /\ pc = "done"
  /\ pc' = "idle"
  /\ op' = NoOp
  /\ snapshot' = << >>
  /\ prevDesktop' = 0
  /\ nAtSwitch' = DefaultDesktops
  /\ allStatesRestored' = NewBarrier
  /\ done' = NewBarrier
  /\ nUpdates' = 0
  /\ nCallbacks' = 0
  /\ lastFocusedWindow' = NoWindowId
  /\ seenByOnChange' = << >>
  /\ gotLastFocused' = NoWindowId
  /\ UNCHANGED <<desktopsSetting, currentDesktop_, windowStates_, otherVars, windows,
                 stored, iconDesktop, pending>>

\* The callback constructs a new VirtualDesktopManager on the same localStorage
\* (a reload of the extension) and returns.
Reconstruct ==
  /\ pc = "done"
  /\ currentDesktop_' = LoadCurrentDesktop(stored)
  /\ windowStates_' = LoadWindowStates(stored)
  /\ iconDesktop' = NotifiedAtConstruction(stored)
  /\ pc' = "idle"
  /\ op' = NoOp
  /\ snapshot' = << >>
  /\ prevDesktop' = 0
  /\ nAtSwitch' = DefaultDesktops
  /\ allStatesRestored' = NewBarrier
  /\ done' = NewBarrier
  /\ nUpdates' = 0
  /\ nCallbacks' = 0
  /\ lastFocusedWindow' = NoWindowId
  /\ seenByOnChange' = << >>
  /\ gotLastFocused' = NoWindowId
  /\ UNCHANGED <<desktopsSetting, otherVars, windows, stored, pending>>

\* The user and the options page act between the steps of the program, never
\* while a callback runs.
envEnabled == pc # "done"

envUnchanged == <<currentDesktop_, windowStates_, otherVars, stored, iconDesktop, pc, op,
                  snapshot, prevDesktop, nAtSwitch, allStatesRestored, done, pending,
                  nUpdates, nCallbacks, followedVars>>

\* The user opens a window.
WindowCreated ==
  \E w \in Windows \ DOMAIN windows :
    /\ envEnabled
    /\ windows' = [v \in DOMAIN windows \cup {w} |->
                     IF v = w THEN [state |-> "normal"] ELSE windows[v]]
    /\ UNCHANGED <<desktopsSetting, envUnchanged>>

\* The user closes a window.
WindowRemoved ==
  \E w \in DOMAIN windows :
    /\ envEnabled
    /\ windows' = [v \in DOMAIN windows \ {w} |-> windows[v]]
    /\ UNCHANGED <<desktopsSetting, envUnchanged>>

\* The user minimizes or restores a window.
WindowStateChanged ==
  \E w \in DOMAIN windows, st \in LiveStates :
    /\ envEnabled
    /\ st # windows[w].state
    /\ windows' = [windows EXCEPT ![w].state = st]
    /\ UNCHANGED <<desktopsSetting, envUnchanged>>

\* settings.setDesktops(n) from the options page.
SetDesktops ==
  \E v \in 1..MaxSetting :
    /\ envEnabled
    /\ desktopsSetting' = <<v>>
    /\ UNCHANGED <<windows, envUnchanged>>

Next ==
  \/ SwitchToDesktop
  \/ GetAllCallback
  \/ AckStateUpdate
  \/ AckBoundsUpdate
  \/ ForgetWindow
  \/ GetLastFocusedCallback
  \/ CallbackReturns
  \/ Reconstruct
  \/ WindowCreated
  \/ WindowRemoved
  \/ WindowStateChanged
  \/ SetDesktops

Spec == Init /\ [][Next]_vars

\* Desktop d holds a remembered window that is not minimized.
Occupied(d) ==
  \E w \in DOMAIN windowStates_ :
    windowStates_[w].desktop = d /\ windowStates_[w].state # MINIMIZED_STATE_

\* The first occupied desktop among c + dir, c + 2 dir, ... (mod n); c if none is.
FirstOccupied(c, dir, n) ==
  LET K == {k \in 1..n : Occupied((c + k * dir) % n)}
  IN  IF K = {} THEN c
      ELSE (c + (CHOOSE k \in K : \A j \in K : k <= j) * dir) % n

\* A switchToDesktop call (direct or made by forgetWindow) has called back.
Completed == pc = "done" /\ nCallbacks > 0

\* C1: with the empty-desktop policy active, whenever a switchToDesktop call
\* has completed and some remembered window is not minimized, the current
\* desktop holds a remembered window that is not minimized.
C1_NoEmptyDesktop ==
  (/\ DISALLOW_EMPTY_DESKTOPS /\ Completed
   /\ \E w \in DOMAIN windowStates_ : windowStates_[w].state # MINIMIZED_STATE_)
  => Occupied(currentDesktop_)

\* C25: after any switchToDesktop call has completed, whatever changes of the
\* desktop count came between the calls, every remembered window is on a
\* desktop below the count that was read during that call.
C25_RememberedDesktopsInRange ==
  Completed => \A w \in DOMAIN windowStates_ :
                 windowStates_[w].desktop \in 0..(nAtSwitch - 1)

\* C2: a switch whose new current desktop equals the previous one makes no
\* update call to the window facility, calls its callback exactly once, and
\* saves the refreshed state.
C2_SameDesktopNoUpdates ==
  (pc = "done" /\ op.kind = "switch" /\ currentDesktop_ = prevDesktop)
  => /\ nUpdates = 0 /\ pending = {}
     /\ nCallbacks = 1
     /\ stored = saveState_(currentDesktop_, windowStates_)
     /\ DOMAIN windowStates_ = DOMAIN snapshot

\* A switch to another desktop that was refused because the target is empty.
C2_Witness ==
  /\ pc = "done" /\ op.kind = "switch" /\ currentDesktop_ = prevDesktop
  /\ op.desktop = prevDesktop + 1 /\ prevDesktop + 1 < nAtSwitch
  /\ Occupied(currentDesktop_)
  /\ nUpdates = 0 /\ nCallbacks = 1

\* The switch that has completed was requested from c = prevDesktop < N to
\* c + dir.
SteppedBy(dir) ==
  /\ pc = "done" /\ op.kind = "switch" /\ DISALLOW_EMPTY_DESKTOPS
  /\ prevDesktop < nAtSwitch
  /\ op.desktop = prevDesktop + dir

\* C6: with the empty-desktop policy active and current desktop c < N, a
\* switch requested to c + d, d in {+1, -1}, lands on the first desktop among
\* c + d, c + 2d, ... (mod N) that holds a remembered non-minimized window (as
\* remembered by that switch), and stays on c if no other desktop holds one.
C6_LandsOnFirstOccupied ==
  \A dir \in {0 - 1, 1} :
    SteppedBy(dir) => currentDesktop_ = FirstOccupied(prevDesktop, dir, nAtSwitch)

\* Desktops 0 and 2 occupied, 1 empty: from 0 toward 1 the switch lands on 2.
C6_Witness ==
  /\ SteppedBy(1) /\ prevDesktop = 0 /\ nAtSwitch >= 3
  /\ Occupied(0) /\ ~Occupied(1) /\ Occupied(2)
  /\ currentDesktop_ = 2

(***************************************************************************)
(* The same specification with a user who leaves the windows alone while    *)
(* updates of an operation are in flight.                                   *)
(***************************************************************************)
Quiet == pc \in {"idle", "getLastFocused", "getAll"}

QuietWindowCreated == Quiet /\ WindowCreated
QuietWindowRemoved == Quiet /\ WindowRemoved
QuietWindowStateChanged == Quiet /\ WindowStateChanged
QuietSetDesktops == Quiet /\ SetDesktops

NextQuiet ==
  \/ SwitchToDesktop
  \/ GetAllCallback
  \/ AckStateUpdate
  \/ AckBoundsUpdate
  \/ ForgetWindow
  \/ GetLastFocusedCallback
  \/ CallbackReturns
  \/ Reconstruct
  \/ QuietWindowCreated
  \/ QuietWindowRemoved
  \/ QuietWindowStateChanged
  \/ QuietSetDesktops

SpecQuiet == Init /\ [][NextQuiet]_vars

\* A switchToDesktop call that changed the current desktop has called back.
SwitchedDesktop == Completed /\ op.kind # "none" /\ currentDesktop_ # prevDesktop

\* C13: after a switchToDesktop call that changes the current desktop has
\* completed, every live window remembered on the new current desktop is in its
\* remembered state and every other live window is minimized (the user leaving
\* the windows alone while the updates are in flight).
C13_WindowsFollowDesktop ==
  SwitchedDesktop =>
    \A w \in DOMAIN windows :
      /\ w \in DOMAIN windowStates_
      /\ windows[w].state = IF windowStates_[w].desktop = currentDesktop_
                               THEN windowStates_[w].state
                               ELSE MINIMIZED_STATE_

\* One window is shown on the new current desktop and one that was visible
\* before the switch is now minimized.
C13_Witness ==
  /\ SwitchedDesktop
  /\ \E v, w \in DOMAIN windows :
       /\ windowStates_[v].desktop = currentDesktop_
       /\ windows[v].state = "normal"
       /\ windowStates_[w].desktop # currentDesktop_
       /\ snapshot[w].state = "normal"
       /\ windows[w].state = MINIMIZED_STATE_

SentFocused ==
  /\ Completed /\ op.kind = "switch" /\ op.sendToDesktop
  /\ op.focusedWinId \in DOMAIN snapshot
  /\ snapshot[op.focusedWinId].state # MINIMIZED_STATE_

\* C14: switchToDesktop(target, focusedWinId, true) with a focused window that
\* is live and not minimized ends with the current desktop equal to
\* numberToDesktopId_(target, false), the focused window remembered on the
\* current desktop and still not minimized, and, when the desktop changed,
\* every other window that was visible before minimized.
C14_SendTakesWindowAlong ==
  SentFocused =>
    /\ currentDesktop_ = numberToDesktopId_(op.desktop, FALSE, prevDesktop,
                                            windowStates_, nAtSwitch)
    /\ windowStates_[op.focusedWinId].desktop = currentDesktop_
    /\ windows[op.focusedWinId].state = snapshot[op.focusedWinId].state
    /\ currentDesktop_ # prevDesktop =>
         \A w \in DOMAIN snapshot \ {op.focusedWinId} :
           snapshot[w].state # MINIMIZED_STATE_ =>
             /\ windows[w].state = MINIMIZED_STATE_
             /\ windowStates_[w].desktop = prevDesktop

\* The focused window was sent to the next desktop, empty until then, and the
\* other visible window stayed behind, minimized.
C14_Witness ==
  /\ SentFocused /\ op.desktop = prevDesktop + 1 /\ currentDesktop_ = op.desktop
  /\ nUpdates >= 3
  /\ \E w \in DOMAIN snapshot \ {op.focusedWinId} :
       /\ snapshot[w].state # MINIMIZED_STATE_
       /\ windows[w].state = MINIMIZED_STATE_
  /\ \A w \in DOMAIN windowStates_ \ {op.focusedWinId} :
       windowStates_[w].desktop # currentDesktop_

\* The running operation is past its getAll callback and changes the desktop.
Applying == pc \in {"applying", "done"} /\ currentDesktop_ # prevDesktop

\* C11: within one switchToDesktop call that changes the desktop, no update of
\* the second loop (position and size) is issued while an update of the first
\* loop (state and focus) is unacknowledged, and the callback is called exactly
\* once, when and only when every update of the second loop has been
\* acknowledged, whatever the order of the acknowledgements.
C11_TwoPhasesThenCallback ==
  Applying =>
    /\ (\E u \in pending : u.phase = 2) =>
         /\ \A u \in pending : u.phase = 2
         /\ allStatesRestored.count = 0 /\ allStatesRestored.fired = 1
    /\ nCallbacks <= 1
    /\ nCallbacks = 1 <=> (pc = "done")
    /\ pc = "done" =>
         /\ pending = {}
         /\ allStatesRestored.fired = 1
         /\ done.count = 0 /\ done.finalized /\ done.fired = 1
    /\ pc = "applying" => pending # {}

\* A switch that made two state updates and one position update has called
\* back.
C11_Witness ==
  /\ Applying /\ pc = "done" /\ op.kind = "switch"
  /\ nUpdates >= 3 /\ nCallbacks = 1
  /\ Cardinality(BoundsUpdates(snapshot, windowStates_, currentDesktop_)) >= 1
  /\ Cardinality(StateUpdates(snapshot, windowStates_, currentDesktop_)) >= 2

(***************************************************************************)
(* Specification of the VirtualDesktopManager that follows focus and what  *)
(* the onChange_ notification finds: the same steps as above, each also    *)
(* recording which window the window facility gave focus to, what          *)
(* localStorage held when onChange_ was called, and which window           *)
(* getLastFocused returned. The user leaves the windows alone while        *)
(* updates are in flight.                                                  *)
(***************************************************************************)
GetAllCallbackFollowed ==
  \E sync \in BOOLEAN :
    /\ GetAllStep(sync)
    /\ seenByOnChange' = ObservedByOnChange(stored, stored')
    /\ lastFocusedWindow' \in
         IF sync /\ ShouldApply(currentDesktop_', currentDesktop_)
           THEN FocusAfterSyncUpdates(
                  windows', BoundsUpdates(windows, windowStates_', currentDesktop_'),
                  op.focusedWinId, lastFocusedWindow)
           ELSE {lastFocusedWindow}
    /\ UNCHANGED gotLastFocused

AckStateUpdateFollowed ==
  \E u \in pending :
    /\ AckStateStep(u)
    /\ lastFocusedWindow' \in
         IF u.id \in DOMAIN windows
           THEN FocusAfterStateUpdate(u.id, windows', windowStates_, currentDesktop_,
                                      lastFocusedWindow)
           ELSE {lastFocusedWindow}
    /\ UNCHANGED <<seenByOnChange, gotLastFocused>>

AckBoundsUpdateFollowed ==
  \E u \in pending :
    /\ AckBoundsStep(u)
    /\ lastFocusedWindow' =
         IF u.id \in DOMAIN windows /\ BoundsFocus(u.id, op.focusedWinId)
           THEN u.id
           ELSE lastFocusedWindow
    /\ UNCHANGED <<seenByOnChange, gotLastFocused>>

GetLastFocusedCallbackFollowed ==
  \E lastWin \in DOMAIN windows \cup {NoWindowId} :
    /\ GetLastFocusedStep(lastWin)
    /\ gotLastFocused' = lastWin
    /\ UNCHANGED <<lastFocusedWindow, seenByOnChange>>

NextFocus ==
  \/ SwitchToDesktop
  \/ GetAllCallbackFollowed
  \/ AckStateUpdateFollowed
  \/ AckBoundsUpdateFollowed
  \/ ForgetWindow
  \/ GetLastFocusedCallbackFollowed
  \/ CallbackReturns
  \/ Reconstruct
  \/ QuietWindowCreated
  \/ QuietWindowRemoved
  \/ QuietWindowStateChanged
  \/ QuietSetDesktops

SpecFocus == Init /\ [][NextFocus]_vars

\* The windows whose position and size the second loop of the completed
\* operation has restored.
Restored == BoundsUpdates(snapshot, windowStates_, currentDesktop_)

\* C31: after a switchToDesktop call that changed the desktop has completed,
\* if focusedWinId is a live window remembered on the new current desktop and
\* not minimized, it is the window that was given focus last, in whatever
\* order the window facility acknowledged the updates.
C31_FocusedWindowLast ==
  (SwitchedDesktop /\ op.focusedWinId \in Restored)
    => lastFocusedWindow = op.focusedWinId

\* Two windows were restored on the new desktop, each given focus by the first
\* loop, and the one passed as focusedWinId has it in the end.
C31_Witness ==
  /\ SwitchedDesktop /\ op.kind = "switch"
  /\ op.focusedWinId \in Restored
  /\ Cardinality(Restored) >= 2
  /\ nUpdates >= 4
  /\ lastFocusedWindow = op.focusedWinId

\* C32: forgetWindow passes the id of the window getLastFocused returned as
\* focusedWinId of its switchToDesktop call, so that when the call changes the
\* desktop and restores that window, the second loop asks focus for it.
C32_ForgetPassesLastFocusedId ==
  (SwitchedDesktop /\ op.kind = "forget" /\ gotLastFocused \in Restored)
    => /\ op.focusedWinId = gotLastFocused
       /\ BoundsFocus(gotLastFocused, op.focusedWinId)

\* The operation has called onChange_ and saveState_ and not returned yet.
Notified == pc \in {"applying", "done"} /\ seenByOnChange # << >>

\* C33: in every switchToDesktop call onChange_ is called with the new current
\* desktop before the new (currentDesktop_, windowStates_) pair is saved:
\* onChange_ finds the record the previous operation saved, and the new pair
\* is saved in the same step, before any update is acknowledged and before the
\* callback.
C33_NotifiedBeforeSaved ==
  [][(pc = "getAll" /\ pc' # "getAll") =>
       /\ iconDesktop' = currentDesktop_'
       /\ seenByOnChange' = <<stored>>
       /\ stored' = saveState_(currentDesktop_', windowStates_')]_vars

\* The desktop has changed, and onChange_ was given the new desktop while
\* localStorage still held the previous one.
C33_Witness ==
  /\ Notified /\ currentDesktop_ # prevDesktop
  /\ LoadCurrentDesktop(seenByOnChange[1]) = prevDesktop
  /\ LoadCurrentDesktop(stored) = currentDesktop_
  /\ iconDesktop = currentDesktop_

\* C33 as stated: the new pair is saved before onChange_ is called, so what
\* onChange_ finds in localStorage is the record of the desktop it is given.
C33_Original == Notified => seenByOnChange = <<stored>>

(***************************************************************************)
(* Specification of the VirtualDesktopManager constructed on a localStorage *)
(* whose currentDesktop key holds any short string, or nothing: something   *)
(* other than this program may have written it.                             *)
(***************************************************************************)
MaxText == 2
Chars == {3, Minus, Letter}
Texts == UNION {[1..k -> Chars] : k \in 0..MaxText}

InitConstruct ==
  \E text \in Texts :
    LET found == [currentDesktop |-> text, windowStates |-> << >>]
    IN  /\ desktopsSetting = << >>
        /\ currentDesktop_ = LoadCurrentDesktop(found)
        /\ windowStates_ = LoadWindowStates(found)
        /\ fnIdle
        /\ windows = << >>
        /\ stored = found
        /\ iconDesktop = NotifiedAtConstruction(found)
        /\ pc = "idle"
        /\ op = NoOp
        /\ snapshot = << >>
        /\ prevDesktop = 0
        /\ nAtSwitch = DefaultDesktops
        /\ allStatesRestored = NewBarrier
        /\ done = NewBarrier
        /\ pending = {}
        /\ nUpdates = 0
        /\ nCallbacks = 0
        /\ NothingFollowed
        /\ QueueIdle
        /\ BarrierIdle
        /\ ProviderIdle

SpecConstruct == InitConstruct /\ [][NextQuiet]_vars

\* C34: in every state the value onChange_ was last called with is
\* currentDesktop(): the constructor calls it with the loaded value, which is
\* 0 when the stored text is absent, not a number or negative, and every
\* switchToDesktop calls it with the new current desktop.
C34_NotifiedOfCurrentDesktop ==
  /\ iconDesktop = currentDesktop_
  /\ (pc = "idle" /\ nCallbacks = 0) =>
       /\ currentDesktop_ = LoadCurrentDesktop(stored)
       /\ currentDesktop_ >= 0
       /\ (ParseInt10(stored.currentDesktop) = << >> => currentDesktop_ = 0)

\* A manager constructed on the text of a negative number: onChange_ was
\* called with 0, the current desktop, and windows have been opened since.
C34_Witness ==
  /\ pc = "idle"
  /\ ParseInt10(stored.currentDesktop) # << >>
  /\ ParseInt10(stored.currentDesktop)[1] < 0
  /\ iconDesktop = 0
  /\ currentDesktop_ = 0
  /\ windows # << >>

(***************************************************************************)
(* Specification of the next/previous requests of messageHandler_ on the   *)
(* WakeupQueue: messages arrive while an earlier switchToDesktop is still  *)
(* running, and each closure reads currentDesktop() when the queue calls   *)
(* it. Here taskLog records, for each message, its direction (delta),      *)
(* whether it sends the window along, the current desktop when it arrived, *)
(* and when its callback ran (reached), and the desktop its closure passed *)
(* to switchToDesktop (target). The manager starts with its windows spread *)
(* over the desktops, those of the current desktop visible and the others  *)
(* minimized, as earlier operations left them.                             *)
(***************************************************************************)
MaxRelative == 3

\* Variant of RelativeTarget that uses the current desktop the message
\* arrived at.
RelativeTarget_AtArrival(atArrival, atStart, delta) == atArrival + delta

\* this.virtualDesktopManager_.currentDesktop() + 1 (or - 1), evaluated
\* inside the closure.
RelativeTarget(atArrival, atStart, delta) == atStart + delta

InitRelative ==
  \E cur \in 0..(DefaultDesktops - 1), d \in [Windows -> 0..(DefaultDesktops - 1)] :
    LET ws == [w \in Windows |-> [desktop |-> d[w], state |-> "normal"]]
    IN  /\ \E w \in Windows : d[w] = cur
        /\ desktopsSetting = << >>
        /\ currentDesktop_ = cur
        /\ windowStates_ = ws
        /\ fnIdle
        /\ windows = [w \in Windows |->
                        [state |-> IF d[w] = cur THEN "normal" ELSE MINIMIZED_STATE_]]
        /\ stored = saveState_(cur, ws)
        /\ iconDesktop = cur
        /\ pc = "idle"
        /\ op = NoOp
        /\ snapshot = << >>
        /\ prevDesktop = 0
        /\ nAtSwitch = DefaultDesktops
        /\ allStatesRestored = NewBarrier
        /\ done = NewBarrier
        /\ pending = {}
        /\ nUpdates = 0
        /\ nCallbacks = 0
        /\ NothingFollowed
        /\ QueueIdle
        /\ BarrierIdle
        /\ ProviderIdle

\* The closure of message i calls switchToDesktop.
RelativeOp(entry, target) ==
  [NoOp EXCEPT !.kind = "switch", !.desktop = target,
               !.focusedWinId = entry.winId, !.sendToDesktop = entry.send]

\* The winId of a message: the client asks getLastFocused for it, which
\* returns a window that is not minimized if there is one.
LastFocusedWindows ==
  LET visible == {w \in DOMAIN windows : windows[w].state # MINIMIZED_STATE_}
  IN  IF visible # {} THEN visible ELSE DOMAIN windows

\* messageHandler_ for SWITCH_TO_NEXT/PREVIOUS_DESKTOP and
\* CURRENT_TO_NEXT/PREVIOUS_DESKTOP: the closure is added, and called at once
\* if the queue was idle.
RelativeMessage ==
  \E delta \in {0 - 1, 1}, f \in LastFocusedWindows, s \in BOOLEAN :
    /\ Len(taskLog) < MaxRelative
    /\ LET i == Len(taskLog) + 1
           q == add(theQueue, [id |-> i, sync |-> FALSE])
           calledNow == Len(q.started) > Len(started)
           target == RelativeTarget(currentDesktop_, currentDesktop_, delta)
           entry == [delta |-> delta, send |-> s, winId |-> f,
                     behind |-> Len(queue_), arrival |-> currentDesktop_,
                     target |-> IF calledNow THEN <<target>> ELSE << >>,
                     reached |-> << >>]
       IN  /\ queue_' = q.queue
           /\ started' = q.started
           /\ signalled' = q.signalled
           /\ taskLog' = Append(taskLog, entry)
           /\ IF calledNow
                THEN /\ op' = RelativeOp(entry, target)
                     /\ pc' = "getAll"
                ELSE UNCHANGED <<op, pc>>
    /\ UNCHANGED <<desktopsSetting, currentDesktop_, windowStates_, fnVars, windows,
                   stored, iconDesktop, snapshot, prevDesktop, nAtSwitch,
                   allStatesRestored, done, pending, nUpdates, nCallbacks,
                   followedVars, barrierVars, providerVars>>

\* The callback of the running switchToDesktop: sendResponse and finished,
\* which calls the next closure, if any; that closure reads currentDesktop()
\* and calls switchToDesktop.
RelativeCallback ==
  /\ pc = "done"
  /\ Len(queue_) > 0
  /\ LET i == Head(queue_).id
         q == wakeupNext_([theQueue EXCEPT !.signalled = @ \cup {i}])
         calledNext == Len(q.started) > Len(started)
         j == IF calledNext THEN Head(q.queue).id ELSE i
         target == RelativeTarget(taskLog[j].arrival, currentDesktop_, taskLog[j].delta)
         finishedLog == [taskLog EXCEPT ![i].reached = <<currentDesktop_>>]
     IN  /\ queue_' = q.queue
         /\ started' = q.started
         /\ signalled' = q.signalled
         /\ IF calledNext
              THEN /\ taskLog' = [finishedLog EXCEPT ![j].target = <<target>>]
                   /\ op' = RelativeOp(taskLog[j], target)
                   /\ pc' = "getAll"
              ELSE /\ taskLog' = finishedLog
                   /\ op' = NoOp
                   /\ pc' = "idle"
  /\ snapshot' = << >>
  /\ prevDesktop' = 0
  /\ nAtSwitch' = DefaultDesktops
  /\ allStatesRestored' = NewBarrier
  /\ done' = NewBarrier
  /\ nUpdates' = 0
  /\ nCallbacks' = 0
  /\ UNCHANGED <<desktopsSetting, currentDesktop_, windowStates_, fnVars, windows,
                 stored, iconDesktop, pending, followedVars, barrierVars,
                 providerVars>>

NextRelative ==
  \/ RelativeMessage
  \/ GetAllCallback
  \/ AckStateUpdate
  \/ AckBoundsUpdate
  \/ RelativeCallback

SpecRelative == InitRelative /\ [][NextRelative]_vars

\* C40: the desktop a next/previous request passes to switchToDesktop is
\* currentDesktop() + 1 or - 1 as read when the queue calls its closure:
\* the current desktop the preceding request reached, not the one the
\* message arrived at.
C40_TargetReadAtStart ==
  /\ (pc = "getAll" /\ Len(queue_) > 0) =>
       op.desktop = currentDesktop_ + taskLog[Head(queue_).id].delta
  /\ \A i \in 1..Len(taskLog) :
       /\ taskLog[i].target # << >> <=> \E k \in 1..Len(started) : started[k] = i
       /\ (i > 1 /\ taskLog[i].target # << >>) =>
            /\ taskLog[i - 1].reached # << >>
            /\ taskLog[i].target[1] = taskLog[i - 1].reached[1] + taskLog[i].delta

\* Three requests, the last two arrived while the first was running; the
\* first two changed the desktop, and the third was applied to the desktop
\* the second reached, not to the one it arrived at.
C40_Witness ==
  /\ Len(taskLog) = 3 /\ pc = "idle"
  /\ taskLog[2].behind = 1 /\ taskLog[3].behind = 2
  /\ taskLog[1].reached # <<taskLog[1].arrival>>
  /\ taskLog[2].reached # taskLog[1].reached
  /\ taskLog[3].target = <<taskLog[2].reached[1] + taskLog[3].delta>>
  /\ taskLog[3].target # <<taskLog[3].arrival + taskLog[3].delta>>
  /\ taskLog[3].reached # << >>

(***************************************************************************)
(* Specification of forgetWindow alone, at a fixed desktop count: the       *)
(* manager is idle and settled on remembered windows spread over the       *)
(* desktops; the user closes windows and the onRemoved handler forgets     *)
(* them.                                                                   *)
(***************************************************************************)
ForgetWindows == 1..MaxForgetWindows

\* What each window looks like once a switch to desktop cur has been applied:
\* its remembered state on the current desktop, minimized elsewhere.
Settled(ws, cur) ==
  [w \in DOMAIN ws |-> [state |-> IF ws[w].desktop = cur THEN ws[w].state
                                  ELSE MINIMIZED_STATE_]]

InitForget ==
  /\ desktopsSetting \in {<< >>} \cup {<<v>> : v \in 2..MaxSetting}
  /\ currentDesktop_ \in 0..(getDesktops - 1)
  /\ windowStates_ \in [ForgetWindows -> [desktop : 0..(getDesktops - 1),
                                          state : LiveStates]]
  /\ \/ nWindowsOnDesktop(windowStates_, currentDesktop_) > 0
     \/ \A d \in 0..(getDesktops - 1) : nWindowsOnDesktop(windowStates_, d) = 0
  /\ windows = Settled(windowStates_, currentDesktop_)
  /\ stored = saveState_(currentDesktop_, windowStates_)
  /\ iconDesktop = currentDesktop_
  /\ pc = "idle"
  /\ op = NoOp
  /\ snapshot = << >>
  /\ prevDesktop = 0
  /\ nAtSwitch = DefaultDesktops
  /\ allStatesRestored = NewBarrier
  /\ done = NewBarrier
  /\ pending = {}
  /\ nUpdates = 0
  /\ nCallbacks = 0
  /\ NothingFollowed
  /\ fnIdle
  /\ QueueIdle
  /\ BarrierIdle
  /\ ProviderIdle

NextForget ==
  \/ WindowRemoved
  \/ ForgetWindow
  \/ GetLastFocusedCallback
  \/ GetAllCallback
  \/ AckStateUpdate
  \/ AckBoundsUpdate
  \/ CallbackReturns

SpecForget == InitForget /\ [][NextForget]_vars

\* forgetWindow has completed; it had deleted the only non-minimized remembered
\* window of the current desktop c < N, its switch found no visible window to
\* keep on c, and another desktop in [0, N) holds a non-minimized window.
ForgotLast ==
  /\ pc = "done" /\ op.kind = "forget" /\ op.removedLast
  /\ DISALLOW_EMPTY_DESKTOPS
  /\ prevDesktop < nAtSwitch
  /\ ~Occupied(prevDesktop)
  /\ \E d \in 0..(nAtSwitch - 1) : Occupied(d)

\* C7: with the empty-desktop policy active, if forgetWindow removes the last
\* non-minimized window of the current desktop c while another desktop in
\* [0, N) still has one, then when its callback runs the current desktop is not
\* empty: it is the first non-empty desktop in the order c-1, c-2, ... (mod N).
C7_ForgetSwitchesBackward ==
  ForgotLast =>
    /\ Occupied(currentDesktop_)
    /\ currentDesktop_ # prevDesktop
    /\ currentDesktop_ = FirstOccupied(prevDesktop, 0 - 1, nAtSwitch)

\* Closing the last window of desktop 1 with desktop 0 empty and desktops 2 and
\* 3 occupied moves to desktop 3, the first one going backward, not to 2.
C7_Witness ==
  /\ ForgotLast /\ prevDesktop = 1 /\ nAtSwitch = 4
  /\ ~Occupied(0) /\ Occupied(2) /\ Occupied(3)
  /\ currentDesktop_ = 3

(***************************************************************************)
(* Specification of fixUpdateInfo as a function of the requested bounds    *)
(* and of the decoration of an X11 window manager: the update is           *)
(* performed, fixUpdateInfo is applied to the window it gives, and the     *)
(* update it proposes is performed in turn.                                *)
(***************************************************************************)
Sizes == (WINDOW_MANAGER_TOLERANCE + 1)..(WINDOW_MANAGER_TOLERANCE + MaxSize)

FullRequests ==
  [left : {<<v>> : v \in 0..MaxCoordinate}, top : {<<v>> : v \in 0..MaxCoordinate},
   width : {<<v>> : v \in Sizes}, height : {<<v>> : v \in Sizes}]

\* Updates with all bounds, without a left coordinate, or without bounds (state
\* and focus only).
UpdateRequests == FullRequests \cup {[r EXCEPT !.left = << >>] : r \in FullRequests}
              \cup {NoInfo}

Decorations == [a : (0..MaxShift) \cup {WINDOW_MANAGER_TOLERANCE}, b : 0..MaxShift]

\* A window is where it is asked to be or far from there.
FarAway == 2 * WINDOW_MANAGER_TOLERANCE

InitialWindows == [left : {0, FarAway}, top : {0}, width : Sizes, height : Sizes]

RestIdle ==
  /\ desktopsSetting = << >>
  /\ currentDesktop_ = 0
  /\ windowStates_ = << >>
  /\ fnIdle
  /\ VdmIdle
  /\ QueueIdle
  /\ BarrierIdle

providerUnchanged == <<desktopsSetting, currentDesktop_, windowStates_, fnVars, vdmVars,
                       queueVars, barrierVars>>

InitFix ==
  /\ RestIdle
  /\ updateInfo \in FullRequests
  /\ createInfo = NoInfo
  /\ win \in InitialWindows
  /\ wmPending = <<updateInfo>>
  /\ decoration \in Decorations
  /\ wpPc = "requested"
  /\ attempt = 0
  /\ fixes = NoFixes
  /\ wpLog = NewLog

\* The window manager performs the oldest update chrome has handed to it.
WindowManagerApplies ==
  /\ wmPending # << >>
  /\ win # << >>
  /\ win' = simulateX11UpdateInfo(win, decoration, Head(wmPending))
  /\ wmPending' = Tail(wmPending)
  /\ UNCHANGED <<updateInfo, createInfo, decoration, wpPc, attempt, fixes, wpLog,
                 providerUnchanged>>

\* fixUpdateInfo is applied to the window the update gave, and the update it
\* returns is requested.
CallFixUpdateInfo ==
  /\ wpPc = "requested"
  /\ wmPending = << >>
  /\ fixes' = fixUpdateInfo(win, updateInfo)
  /\ wmPending' = <<fixes'.newUpdateInfo>>
  /\ wpPc' = "fixRequested"
  /\ UNCHANGED <<updateInfo, createInfo, win, decoration, attempt, wpLog,
                 providerUnchanged>>

NextFix == WindowManagerApplies \/ CallFixUpdateInfo

SpecFix == InitFix /\ [][NextFix]_vars

\* C18: for every requested bounds and every window manager that shifts left by
\* a >= 0 and top by b >= 0 (a + b > 0) and keeps width and height, fixUpdateInfo
\* on the window observed returns distance a + b and the update {width - a,
\* height - b} with left and top unset; once that update is performed the right
\* and bottom edges are the requested left + width and top + height, and the
\* distance computed again is 0.
C18_FixRestoresFarCorner ==
  (wpPc = "fixRequested" /\ decoration.a + decoration.b > 0) =>
    /\ fixes.distance = decoration.a + decoration.b
    /\ fixes.newUpdateInfo =
         [NoInfo EXCEPT !.width = <<updateInfo.width[1] - decoration.a>>,
                        !.height = <<updateInfo.height[1] - decoration.b>>]
    /\ wmPending = << >> =>
         /\ win.left + win.width = updateInfo.left[1] + updateInfo.width[1]
         /\ win.top + win.height = updateInfo.top[1] + updateInfo.height[1]
         /\ fixUpdateInfo(win, updateInfo).distance = 0

\* A window shifted by (1, 2) got the update of distance 3 and its far corner
\* is where it was asked to be.
C18_Witness ==
  /\ wpPc = "fixRequested" /\ wmPending = << >>
  /\ decoration = [a |-> 1, b |-> 2]
  /\ fixes.distance = 3
  /\ win.left = updateInfo.left[1] + 1
  /\ win.left + win.width = updateInfo.left[1] + updateInfo.width[1]

(***************************************************************************)
(* Specification of WindowProvider.update and WindowProvider.create with   *)
(* chrome.windows and a window manager that performs the updates it is     *)
(* handed late or never.                                                   *)
(***************************************************************************)
InitProvider ==
  /\ RestIdle
  /\ updateInfo = NoInfo
  /\ createInfo = NoInfo
  /\ win \in InitialWindows \cup {<< >>}
  /\ wmPending = << >>
  /\ decoration \in Decorations
  /\ wpPc = "idle"
  /\ attempt = 0
  /\ fixes = NoFixes
  /\ wpLog = NewLog

\* Variant of Callback that does not run the callback.
Callback_Silent(log) == [log EXCEPT !.atCallback = wpPc]

\* Variant of Callback that runs the callback twice.
Callback_Twice(log) == [log EXCEPT !.callbacks = @ + 2, !.atCallback = wpPc]

\* The callback of the call runs.
Callback(log) == [log EXCEPT !.callbacks = @ + 1, !.atCallback = wpPc]

\* chrome.windows.update(winId, info, ...): chrome hands the update to the
\* window manager if the window exists.
ChromeUpdate(info) == IF win # << >> THEN Append(wmPending, info) ELSE wmPending

\* update(winId, updateInfo, callback) on an existing window.
Update ==
  \E info \in UpdateRequests :
    /\ wpPc = "idle"
    /\ win # << >>
    /\ updateInfo' = info
    /\ wmPending' = ChromeUpdate(info)
    /\ wpLog' = [wpLog EXCEPT !.updates = @ + 1]
    /\ wpPc' = "updateSent"
    /\ UNCHANGED <<createInfo, win, decoration, attempt, fixes, providerUnchanged>>

\* checkWindowUpdated_(winId, updateInfo, callback, i) up to its setTimeout.
CheckWindowUpdated(i, log) ==
  /\ attempt' = i
  /\ IF GaveUp(i)
       THEN wpPc' = "done" /\ wpLog' = Callback(log)
       ELSE wpPc' = "timer" /\ wpLog' = log

\* chrome.windows.update calls back: checkWindowUpdated_ with i = 0.
UpdateAck ==
  /\ wpPc = "updateSent"
  /\ CheckWindowUpdated(0, wpLog)
  /\ UNCHANGED <<updateInfo, createInfo, win, wmPending, decoration, fixes,
                 providerUnchanged>>

\* The timer of checkWindowUpdated_ fires: this.get(winId, ...).
TimerFires ==
  /\ wpPc = "timer"
  /\ wpPc' = "get"
  /\ UNCHANGED <<updateInfo, createInfo, win, wmPending, decoration, attempt, fixes,
                 wpLog, providerUnchanged>>

\* The callback of get in checkWindowUpdated_: the read-back.
GetCallback ==
  /\ wpPc = "get"
  /\ LET f == fixUpdateInfo(win, updateInfo)
         read == [wpLog EXCEPT !.readbacks = @ + 1]
         log == [read EXCEPT !.observed = Append(@, f.distance)]
     IN  IF win = << >>
           THEN /\ wpPc' = "done"
                /\ wpLog' = Callback(read)
                /\ UNCHANGED <<attempt, fixes, wmPending>>
           ELSE /\ fixes' = f
                /\ IF f.distance = 0
                     THEN /\ wpPc' = "done"
                          /\ wpLog' = Callback(log)
                          /\ UNCHANGED <<attempt, wmPending>>
                     ELSE IF TryAgainLater(f.distance)
                       THEN /\ CheckWindowUpdated(attempt + 1, log)
                            /\ UNCHANGED wmPending
                       ELSE /\ wmPending' = ChromeUpdate(f.newUpdateInfo)
                            /\ wpLog' = [log EXCEPT !.fixWrites = @ + 1,
                                                    !.updates = @ + 1]
                            /\ wpPc' = "fixSent"
                            /\ UNCHANGED attempt
  /\ UNCHANGED <<updateInfo, createInfo, win, decoration, providerUnchanged>>

\* chrome.windows.update of the corrective update calls back: the callback.
FixAck ==
  /\ wpPc = "fixSent"
  /\ wpPc' = "done"
  /\ wpLog' = Callback(wpLog)
  /\ UNCHANGED <<updateInfo, createInfo, win, wmPending, decoration, attempt, fixes,
                 providerUnchanged>>

\* create(createInfo, callback): chrome.windows.create(createInfo, ...).
Create ==
  \E info \in UpdateRequests :
    /\ wpPc = "idle"
    /\ win = << >>
    /\ createInfo' = info
    /\ wpLog' = [wpLog EXCEPT !.created = Append(@, info)]
    /\ wpPc' = "createSent"
    /\ UNCHANGED <<updateInfo, win, wmPending, decoration, attempt, fixes,
                   providerUnchanged>>

\* chrome.windows.create calls back with the window, which is not exactly where
\* it was asked to be: updateInfo is built and the creation timer set.
CreateCallback ==
  \E w \in InitialWindows :
    /\ wpPc = "createSent"
    /\ win' = w
    /\ updateInfo' = createInfo
    /\ wpPc' = "createDelay"
    /\ UNCHANGED <<createInfo, wmPending, decoration, attempt, fixes, wpLog,
                   providerUnchanged>>

\* The creation timer fires: this.update(win.id, updateInfo, ...).
CreateTimerFires ==
  /\ wpPc = "createDelay"
  /\ wmPending' = ChromeUpdate(updateInfo)
  /\ wpLog' = [wpLog EXCEPT !.updates = @ + 1]
  /\ wpPc' = "updateSent"
  /\ UNCHANGED <<updateInfo, createInfo, win, decoration, attempt, fixes,
                 providerUnchanged>>

\* The user closes the window while the call is running.
WindowCloses ==
  /\ wpPc \notin {"idle", "createSent", "done"}
  /\ win # << >>
  /\ win' = << >>
  /\ wmPending' = << >>
  /\ UNCHANGED <<updateInfo, createInfo, decoration, wpPc, attempt, fixes, wpLog,
                 providerUnchanged>>

NextProvider ==
  \/ Update
  \/ UpdateAck
  \/ TimerFires
  \/ GetCallback
  \/ FixAck
  \/ Create
  \/ CreateCallback
  \/ CreateTimerFires
  \/ WindowManagerApplies
  \/ WindowCloses

SpecProvider == InitProvider /\ [][NextProvider]_vars

\* A read-back that found a distance the corrective update is made for.
WithinTolerance(distance) == 0 < distance /\ distance <= WINDOW_MANAGER_TOLERANCE

\* C16: update() issues a corrective update if and only if a read-back found
\* 0 < distance <= tolerance (64 included); it issues at most one, makes no
\* read-back after it, and calls the callback when it is acknowledged; a
\* read-back that found distance 0 is followed by the callback with no
\* corrective update.
C16_OneFixWithinTolerance ==
  LET obs == wpLog.observed
  IN  /\ wpLog.fixWrites <= 1
      /\ wpLog.callbacks <= 1
      /\ wpLog.fixWrites = 1 <=> \E k \in 1..Len(obs) : WithinTolerance(obs[k])
      /\ \A k \in 1..Len(obs) :
           /\ WithinTolerance(obs[k]) => k = Len(obs) /\ wpLog.readbacks = k
           /\ obs[k] = 0 =>
                /\ k = Len(obs) /\ wpLog.readbacks = k
                /\ wpLog.fixWrites = 0
                /\ wpPc = "done" /\ wpLog.callbacks = 1
      /\ wpLog.fixWrites = 1 =>
           \/ wpPc = "fixSent" /\ wpLog.callbacks = 0
           \/ wpPc = "done" /\ wpLog.callbacks = 1 /\ wpLog.atCallback = "fixSent"

\* After a read-back too far off, a read-back at exactly the tolerance led to
\* the corrective update, and the callback has run.
C16_Witness ==
  /\ wpPc = "done" /\ wpLog.fixWrites = 1 /\ wpLog.callbacks = 1
  /\ Len(wpLog.observed) = 2
  /\ wpLog.observed[1] > WINDOW_MANAGER_TOLERANCE
  /\ wpLog.observed[2] = WINDOW_MANAGER_TOLERANCE

C19_CreatesWithoutBounds ==
  /\ \A k \in 1..Len(wpLog.created) : wpLog.created[k] = NoInfo
  /\ wpPc \in {"createSent", "createDelay"} =>
       wpLog.updates = 0 /\ wpLog.callbacks = 0
  /\ (Len(wpLog.created) > 0 /\ wpLog.callbacks > 0) =>
       wpLog.updates >= 1 /\ wpPc = "done"

\* C35: when the read-back of checkWindowUpdated_ returns no window, that step
\* runs the callback of update() and hands the window manager nothing, and
\* from then on the call makes no read-back, issues no update and runs no
\* callback again.
C35_VanishedWindowCallsBack ==
  [][/\ (wpPc = "get" /\ win = << >> /\ wpPc' # "get") =>
          (/\ wpPc' = "done"
           /\ wpLog'.callbacks = 1 /\ wpLog.callbacks = 0
           /\ wpLog'.atCallback = "get"
           /\ wpLog'.updates = wpLog.updates
           /\ wpLog'.fixWrites = wpLog.fixWrites
           /\ wmPending' = wmPending)
      /\ (wpPc = "done" => (wpPc' = "done" /\ wpLog' = wpLog))]_vars

\* The window was there at a first read-back, too far off, and gone at the
\* second, which ran the callback.
C35_Witness ==
  /\ wpPc = "done" /\ win = << >>
  /\ wpLog.readbacks = 2 /\ Len(wpLog.observed) = 1
  /\ wpLog.callbacks = 1 /\ wpLog.atCallback = "get"
  /\ wpLog.fixWrites = 0

\* chrome.windows and the timers call back in the end: every outstanding
\* update, get, create or timer of the running call is answered.
SpecProviderLive ==
  /\ SpecProvider
  /\ WF_vars(UpdateAck)
  /\ WF_vars(TimerFires)
  /\ WF_vars(GetCallback)
  /\ WF_vars(FixAck)
  /\ WF_vars(CreateCallback)
  /\ WF_vars(CreateTimerFires)

\* C36: when chrome.windows and the timers call back in the end, every
\* update() runs its callback, and never more than once, whatever the
\* read-backs find and whenever the window closes.
C36_UpdateCallsBackOnce ==
  /\ [](wpLog.callbacks <= 1)
  /\ (wpPc = "updateSent") ~> (wpPc = "done" /\ wpLog.callbacks = 1)

\* A read-back within the tolerance led to the corrective update, the window
\* closed before it was acknowledged, and the callback has run once.
C36_Witness ==
  /\ wpPc = "done" /\ win = << >>
  /\ wpLog.fixWrites = 1
  /\ wpLog.callbacks = 1 /\ wpLog.atCallback = "fixSent"

(***************************************************************************)
(* Specification of updateWindowStates_ alone, with window bounds: any     *)
(* remembered states (as the last operation saved them), any stored        *)
(* current desktop and any answer of windowProvider_.getAll; the callback  *)
(* of getAll runs the refresh, at which pc goes from "getAll" to           *)
(* "refreshed".                                                            *)
(***************************************************************************)
\* The rectangles a window can have: all four values differ between two
\* rectangles.
Rects ==
  {[left |-> c, top |-> MaxCoordinate - c, width |-> 1 + c, height |-> MaxSize - c] :
     c \in 0..MaxCoordinate}

\* The ChromeWindow objects getAll can return for one window.
LiveWindows ==
  {[state |-> st, left |-> r.left, top |-> r.top, width |-> r.width,
    height |-> r.height] : st \in LiveStates, r \in Rects}

\* The entries windowStates_ can hold for one window.
RememberedStates ==
  {[desktop |-> d, state |-> st, x |-> r.left, y |-> r.top, w |-> r.width,
    h |-> r.height] : d \in 0..MaxWinDesktop, st \in LiveStates, r \in Rects}

InitRefresh ==
  /\ desktopsSetting = << >>
  /\ currentDesktop_ \in 0..MaxWinDesktop
  /\ windowStates_ \in UNION {[S -> RememberedStates] : S \in SUBSET Windows}
  /\ windows \in UNION {[S -> LiveWindows] : S \in SUBSET Windows}
  /\ stored = saveState_(currentDesktop_, windowStates_)
  /\ iconDesktop = currentDesktop_
  /\ pc = "getAll"
  /\ op = NoOp
  /\ snapshot = << >>
  /\ prevDesktop = 0
  /\ nAtSwitch = DefaultDesktops
  /\ allStatesRestored = NewBarrier
  /\ done = NewBarrier
  /\ pending = {}
  /\ nUpdates = 0
  /\ nCallbacks = 0
  /\ NothingFollowed
  /\ fnIdle
  /\ QueueIdle
  /\ BarrierIdle
  /\ ProviderIdle

\* this.updateWindowStates_(windows) in the callback of getAll.
CallUpdateWindowStates ==
  /\ pc = "getAll"
  /\ windowStates_' = updateWindowStates_(windows, windowStates_, currentDesktop_)
  /\ pc' = "refreshed"
  /\ UNCHANGED <<desktopsSetting, currentDesktop_, otherVars, windows, stored,
                 iconDesktop, op, snapshot, prevDesktop, nAtSwitch, allStatesRestored,
                 done, pending, nUpdates, nCallbacks, followedVars>>

NextRefresh == CallUpdateWindowStates

SpecRefresh == InitRefresh /\ [][NextRefresh]_vars

\* The windows that had a remembered state before the refresh: the keys of the
\* states the last operation saved.
KnownBefore == DOMAIN LoadWindowStates(stored)

\* C28: after the refresh the windows with a remembered state are exactly the
\* live windows that getAll returned: every live window has a state, and the
\* states of windows that are gone are dropped.
C28_StatesAreTheLiveWindows == pc = "refreshed" => DOMAIN windowStates_ = DOMAIN windows

\* One window that was remembered is gone and has no state any more; another
\* that was unknown is live and has one.
C28_Witness ==
  /\ pc = "refreshed"
  /\ \E v \in KnownBefore : v \notin DOMAIN windows /\ v \notin DOMAIN windowStates_
  /\ \E w \in DOMAIN windows : w \notin KnownBefore /\ w \in DOMAIN windowStates_

\* C29: the refresh leaves the remembered desktop, state and bounds of a live
\* window unchanged when the window was known, was remembered on a desktop
\* other than currentDesktop_, and is minimized now.
C29_HiddenWindowKept ==
  [][(pc = "getAll" /\ pc' = "refreshed") =>
       \A w \in DOMAIN windows \cap DOMAIN windowStates_ :
         (windowStates_[w].desktop # currentDesktop_
            /\ windows[w].state = MINIMIZED_STATE_)
           => windowStates_'[w] = windowStates_[w]]_vars

\* A window hidden on another desktop is minimized now, at other bounds than
\* were recorded; after the refresh it is still remembered as normal, on its
\* desktop, with the recorded bounds.
C29_Witness ==
  /\ pc = "refreshed"
  /\ \E w \in DOMAIN windows \cap KnownBefore :
       /\ windows[w].state = MINIMIZED_STATE_
       /\ windowStates_[w].desktop # currentDesktop_
       /\ windowStates_[w].state = "normal"
       /\ windowStates_[w].x # windows[w].left

\* C30: the refresh records every live window that is not minimized on
\* currentDesktop_ (the current desktop before the switch), with its live state
\* and bounds, whatever desktop it was remembered on.
C30_VisibleWindowFetched ==
  [][(pc = "getAll" /\ pc' = "refreshed") =>
       \A w \in DOMAIN windows :
         windows[w].state # MINIMIZED_STATE_ =>
           /\ w \in DOMAIN windowStates_'
           /\ windowStates_'[w] =
                [desktop |-> currentDesktop_, state |-> windows[w].state,
                 x |-> windows[w].left, y |-> windows[w].top,
                 w |-> windows[w].width, h |-> windows[w].height]]_vars

\* A window that was remembered on another desktop is visible now: after the
\* refresh it is on the current desktop.
C30_Witness ==
  /\ pc = "refreshed"
  /\ \E w \in DOMAIN windows \cap KnownBefore :
       /\ LoadWindowStates(stored)[w].desktop # currentDesktop_
       /\ windows[w].state # MINIMIZED_STATE_
       /\ windowStates_[w].desktop = currentDesktop_

====
